---- MODULE Spec2Model ----
(***************************************************************************)
(* Verification model of the rollercoaster boost service.                  *)
(*                                                                         *)
(* Numbers.  The program computes with IEEE doubles and rounds every       *)
(* stored value to a fixed number of decimals.  The model computes in      *)
(* fixed point: boost values, time fractions and uniform samples are       *)
(* integers counting millionths (MICRO), odds and crash fractions count    *)
(* ten-thousandths where the program rounds to 4 decimals, and times are   *)
(* integer milliseconds.  Math.round is RoundDiv (round half up).          *)
(* TLC integers are 32 bit wide, so products of two scaled values go       *)
(* through MulMicro, which splits its operands.                            *)
(***************************************************************************)
EXTENDS Integers, Sequences, FiniteSets, TLC

\* ------------------------------------------------------------------------
\* Fixed-point helpers
\* ------------------------------------------------------------------------

MICRO == 10^6

Max2(a, b) == IF a >= b THEN a ELSE b

Min2(a, b) == IF a <= b THEN a ELSE b

Abs(a) == IF a < 0 THEN 0 - a ELSE a

\* lower - upper on IEEE doubles where the decimal difference of the two
\* six-place values equals the threshold they are compared with: the doubles
\* nearest to the operands decide whether the magnitude exceeds the threshold.
\* 0.100001 - 0.1 is 1.000000000001e-06, above 0.000001.  The table holds the
\* pairs that occur in the rides generated here; any other pair is an
\* evaluation error, never a guess.
DoubleDiffExceeds(lower, upper, threshold) ==
  CASE <<lower, upper, threshold>> = <<100000, 100001, 1>> -> TRUE
    [] <<lower, upper, threshold>> = <<400000, 400001, 1>> -> FALSE
    [] <<lower, upper, threshold>> = <<400001, 400002, 1>> -> TRUE

\* Math.abs(a - b) > threshold as the doubles compute it.
AbsDiffExceeds(a, b, threshold) ==
  IF Abs(a - b) = threshold
  THEN DoubleDiffExceeds(IF a < b THEN a ELSE b, IF a < b THEN b ELSE a, threshold)
  ELSE Abs(a - b) > threshold

\* Math.round(n / d) for d > 0: floor(n/d + 1/2).
RoundDiv(n, d) == (2 * n + d) \div (2 * d)

\* round(a * b / MICRO) for a, b >= 0, computed without exceeding 32 bits.
MulMicroNat(a, b) ==
  LET a1 == a \div 1000
      a0 == a % 1000
      b1 == b \div 1000
      b0 == b % 1000
      mid == a1 * b0 + a0 * b1
      low == (mid % 1000) * 1000 + a0 * b0
  IN  a1 * b1 + (mid \div 1000) + ((low + 500000) \div MICRO)

\* round(a * b / MICRO) for signed operands.
MulMicro(a, b) ==
  LET m == MulMicroNat(Abs(a), Abs(b))
  IN  IF (a < 0) = (b < 0) THEN m ELSE 0 - m

\* round(a * MICRO / d) for 0 <= a, 0 < d < 2000000: long division in base 1000.
DivMicro(a, d) ==
  LET q0 == a \div d
      r0 == a % d
      q1 == (r0 * 1000) \div d
      r1 == (r0 * 1000) % d
      q2 == RoundDiv(r1 * 1000, d)
  IN  q0 * MICRO + q1 * 1000 + q2

\* finalBoostCalculator.ts clampValue / part_007 clampValue.
clampValue(value, min, max) == Max2(min, Min2(max, value))

\* ------------------------------------------------------------------------
\* Seeded random source (SeededRandom).  A generator state is a pair of
\* 16-bit limbs <<hi, lo>> standing for hi * 65536 + lo.
\* ------------------------------------------------------------------------

LIMB == 2^16

\* Number of bits of x, 0 <= x < 2^16.
BitLen(x) == CHOOSE n \in 0..16 : x < 2^n /\ (n = 0 \/ x >= 2^(n - 1))

\* The string hash of the constructor: hash = (hash << 5) - hash + char,
\* kept to 32 bits; the result is the unsigned 32-bit pattern <<hi, lo>>.
\* (The comparison with <<>> makes TLC evaluate each intermediate value
\* before it recurses; it is always true.)
RECURSIVE HashChars(_, _, _)
HashChars(str, i, h) ==
  IF i > Len(str) THEN h
  ELSE LET t == h[2] * 31 + str[i]
           lo == t % LIMB
           hi == (h[1] * 31 + (t \div LIMB)) % LIMB
           next == <<hi, lo>>
       IN  IF next # <<>> THEN HashChars(str, i + 1, next) ELSE next

\* Math.abs of the signed reading of a 32-bit pattern, or 1 when it is 0.
AbsOrOne(h) ==
  LET neg == h[1] >= 32768
      lo  == IF neg THEN (LIMB - h[2]) % LIMB ELSE h[2]
      hi  == IF neg THEN (IF h[2] = 0 THEN LIMB - h[1] ELSE LIMB - 1 - h[1])
                    ELSE h[1]
  IN  IF hi = 0 /\ lo = 0 THEN <<0, 1>> ELSE <<hi, lo>>

\* new SeededRandom(seed): the initial state.
SeededRandomNew(str) == AbsOrOne(HashChars(str, 1, <<0, 0>>))

\* Normalise four limbs after an addition to the lowest one.
Carry4(l3, l2, l1, l0) ==
  LET n0 == l0 % LIMB
      t1 == l1 + (l0 \div LIMB)
      n1 == t1 % LIMB
      t2 == l2 + (t1 \div LIMB)
      n2 == t2 % LIMB
      n3 == l3 + (t2 \div LIMB)
  IN  <<n3, n2, n1, n0>>

\* Bits of the 64-bit number l[1]:l[2]:l[3]:l[4].
BitLen4(l) ==
  IF l[1] > 0 THEN 48 + BitLen(l[1])
  ELSE IF l[2] > 0 THEN 32 + BitLen(l[2])
  ELSE IF l[3] > 0 THEN 16 + BitLen(l[3])
  ELSE BitLen(l[4])

\* Round the 64-bit number l to a multiple of unit, ties to the even multiple.
RoundToUnit(l, unit) ==
  LET r    == l[4] % unit
      half == unit \div 2
      odd  == (l[4] \div unit) % 2 = 1
      up   == r > half \/ (r = half /\ odd)
  IN  Carry4(l[1], l[2], l[3], (l[4] - r) + (IF up THEN unit ELSE 0))

\* Drop the k lowest bits of l by rounding (k < 16).
RoundToBits(l, k) == IF k <= 0 THEN l ELSE RoundToUnit(l, 2^k)

\* Round a 64-bit number to a double: 53 significant bits, ties to even.
ToDouble4(l) == RoundToBits(l, BitLen4(l) - 53)

\* state * 1103515245 as an exact 64-bit number (1103515245 = 16838 * 2^16 + 20077).
LcgProduct(s) ==
  LET p0 == s[2] * 20077
      t1 == s[1] * 20077 + s[2] * 16838 + (p0 \div LIMB)
      t2 == s[1] * 16838 + (t1 \div LIMB)
  IN  <<t2 \div LIMB, t2 % LIMB, t1 % LIMB, p0 % LIMB>>

\* double + 12345, rounded to a double.
LcgAdd(dp) == ToDouble4(Carry4(dp[1], dp[2], dp[3], dp[4] + 12345))

\* x & 0x7fffffff of a double x: the low 31 bits.
LcgMask(sum) == <<sum[3] % 32768, sum[4]>>

\* next(): state = (state * 1103515245 + 12345) & 0x7fffffff, where the
\* product and the sum are doubles.
LcgNext(s) == LcgMask(LcgAdd(ToDouble4(LcgProduct(s))))

\* state / 0x7fffffff in millionths (rounded down).
UniformMicro(s) ==
  LET x  == s[1] * 32 + (s[2] \div 2048)
      xh == x \div 1024
      xl == x % 1024
  IN  Min2(MICRO, (xh * MICRO + ((xl * 15625) \div 16)) \div 1024)

\* The state after n calls of next().
RECURSIVE LcgAfter(_, _)
LcgAfter(s, n) ==
  IF n = 0 THEN s
  ELSE LET next == LcgNext(s)
       IN  IF next # <<>> THEN LcgAfter(next, n - 1) ELSE next

\* The values returned by the next n calls of next(), appended to acc.
RECURSIVE DrawsFrom(_, _, _)
DrawsFrom(s, n, acc) ==
  IF n = 0 THEN acc
  ELSE LET next == LcgNext(s)
       IN  IF next # <<>> THEN DrawsFrom(next, n - 1, Append(acc, UniformMicro(next)))
           ELSE acc

\* The value returned by the n-th call of next() (n >= 1).
Draw(s, n) == UniformMicro(LcgAfter(s, n))

\* randomInt(rng, min, max) when it draws (max > min): the draw is u.
randomIntOf(u, min, max) == min + ((u * (max + 1 - min)) \div MICRO)

\* ------------------------------------------------------------------------
\* Ride curve generator (generateRide and its passes).  A checkpoint
\* array is a function on 0..N-1; a ride config is a record
\*   [checkpointCount, minBoostPct, maxBoostPct, ticketStrength,
\*    durationMs (0: not given), crashPct, minPeakDelayMs].
\* ------------------------------------------------------------------------

\* Math.pow(strength, 0.85) on the ticket strengths of the model.
Pow085(s) ==
  CASE s = 0 -> 0
    [] s = 220128 -> 276232
    [] s = 250000 -> 307786
    [] s = 1000000 -> MICRO
    [] OTHER -> s

deriveStartBoostValue(minBoostPct, maxBoostPct, ticketStrength) ==
  LET range == Max2(maxBoostPct - minBoostPct, 0)
      strength == clampValue(ticketStrength, 0, MICRO)
      startOffsetPct == 10000 + MulMicro(Pow085(strength), 140000)
  IN  minBoostPct + MulMicro(range, startOffsetPct)

initializeCheckpointsOpenEnded(checkpointCount, minBoostPct, maxBoostPct, ticketStrength) ==
  LET startValue == deriveStartBoostValue(minBoostPct, maxBoostPct, ticketStrength)
  IN  [i \in 0..(checkpointCount - 1) |->
        [index |-> i,
         timeOffsetPct |-> RoundDiv(i * MICRO, checkpointCount),
         baseBoostValue |-> IF i = checkpointCount - 1 THEN 0 ELSE startValue]]

initializeCheckpoints(checkpointCount, minBoostPct, maxBoostPct, ticketStrength) ==
  LET startValue == deriveStartBoostValue(minBoostPct, maxBoostPct, ticketStrength)
  IN  [i \in 0..(checkpointCount - 1) |->
        [index |-> i,
         timeOffsetPct |-> RoundDiv(i * MICRO, checkpointCount - 1),
         baseBoostValue |-> IF i = checkpointCount - 1 THEN 0 ELSE startValue]]

Count(cps) == Cardinality(DOMAIN cps)

\* crashPct ?? 1 is MICRO when the config gives no crash fraction.
EffectiveCrashPct(crashPct) == clampValue(crashPct, 10000, 990000)

getPreCrashLastCheckpointIndex(cps, crashPct) ==
  LET eff == EffectiveCrashPct(crashPct)
      hit == {i \in DOMAIN cps : cps[i].timeOffsetPct >= eff}
      lastIndex == IF hit = {} THEN Count(cps) - 2
                   ELSE (CHOOSE i \in hit : \A j \in hit : i <= j) - 1
  IN  Max2(1, Min2(lastIndex, Count(cps) - 2))

getInitialClimbPct(durationMs, preCrashEndPct, secondsMs) ==
  IF durationMs <= 0 \/ secondsMs <= 0 THEN 0
  ELSE clampValue(DivMicro(secondsMs, durationMs), 0, Max2(preCrashEndPct - 1, 0))

\* Largest element of a non-empty set of integers.
SetMax(S) == CHOOSE v \in S : \A w \in S : w <= v

\* Smallest element of a non-empty set of integers.
SetMin(S) == CHOOSE v \in S : \A w \in S : v <= w

\* The n-th (from 0) element of a set of integers in increasing order.
NthOf(S, n) == CHOOSE v \in S : Cardinality({w \in S : w < v}) = n

\* First loop of enforceSortedTimes, from node i upwards.
RECURSIVE SortedTimesUp(_, _, _, _)
SortedTimesUp(times, i, minGap, maxValue) ==
  LET lastNodeIndex == Count(times) - 1
  IN  IF i >= lastNodeIndex THEN times
      ELSE LET minAllowed == times[i - 1] + minGap
               maxAllowed == maxValue - (minGap * (lastNodeIndex - i))
               t == clampValue(times[i], minAllowed, Max2(minAllowed, maxAllowed))
           IN  SortedTimesUp([times EXCEPT ![i] = t], i + 1, minGap, maxValue)

\* Second loop of enforceSortedTimes, from node i downwards.
RECURSIVE SortedTimesDown(_, _, _)
SortedTimesDown(times, i, minGap) ==
  IF i < 1 THEN times
  ELSE LET t == Max2(Min2(times[i], times[i + 1] - minGap), times[i - 1] + minGap)
       IN  SortedTimesDown([times EXCEPT ![i] = t], i - 1, minGap)

enforceSortedTimes(times, minGap, maxValue) ==
  SortedTimesDown(SortedTimesUp(times, 1, minGap, maxValue), Count(times) - 2, minGap)

\* times[i] = max(times[i], times[i-1] + minGap) for i = 2 .. lastNodeIndex-1.
RECURSIVE PushTimesUp(_, _, _)
PushTimesUp(times, i, minGap) ==
  IF i >= Count(times) - 1 THEN times
  ELSE PushTimesUp([times EXCEPT ![i] = Max2(times[i], times[i - 1] + minGap)],
                   i + 1, minGap)

\* The jittered node times of buildTurningPointTimes before sorting.  u is
\* the sequence of values the generator returns; k of them are used up.
\* Node i (0 < i < lastNodeIndex) consumes draw k + i.
RawTurningPointTimes(u, k, peakCount, preCrashEndPct) ==
  LET segments == peakCount * 2
      jitterSpan == RoundDiv(RoundDiv(preCrashEndPct, segments) * 45, 100)
  IN  [i \in 0..segments |->
        IF i = 0 THEN 0
        ELSE IF i = segments THEN preCrashEndPct
        ELSE RoundDiv(preCrashEndPct * i, segments)
               + MulMicro(u[k + i] - 500000, jitterSpan)]

\* minGap of buildTurningPointTimes.
TurningPointMinGap(peakCount, preCrashEndPct) ==
  Max2(Max2(RoundDiv(RoundDiv(preCrashEndPct, peakCount * 2) * 35, 100),
            RoundDiv(preCrashEndPct, 100)), 500)

\* times[i] = min(times[i], preCrashEndPct - minGap * (lastNodeIndex - i)).
CapTimes(times, minGap, preCrashEndPct) ==
  [i \in DOMAIN times |->
    IF i >= 1 /\ i <= Count(times) - 2
    THEN Min2(times[i], preCrashEndPct - (minGap * (Count(times) - 1 - i)))
    ELSE times[i]]

\* The second half of buildTurningPointTimes: the first peak is moved to
\* firstPeakMin when it comes earlier, and the end nodes are pinned.
RaiseFirstPeak(sorted, minGap, preCrashEndPct, minFirstPeakPct) ==
  LET lastNodeIndex == Count(sorted) - 1
      firstPeakMin == clampValue(minFirstPeakPct + 1, minGap,
                                 preCrashEndPct - (minGap * (lastNodeIndex - 1)))
      final == IF sorted[1] < firstPeakMin
               THEN enforceSortedTimes(
                      CapTimes(PushTimesUp([sorted EXCEPT ![1] = firstPeakMin], 2, minGap),
                               minGap, preCrashEndPct),
                      minGap, preCrashEndPct)
               ELSE sorted
  IN  [final EXCEPT ![0] = 0, ![lastNodeIndex] = preCrashEndPct]

SpreadTurningPointTimes(raw, minGap, preCrashEndPct, minFirstPeakPct) ==
  RaiseFirstPeak(enforceSortedTimes(raw, minGap, preCrashEndPct), minGap,
                 preCrashEndPct, minFirstPeakPct)

buildTurningPointTimes(u, k, peakCount, preCrashEndPct, minFirstPeakPct) ==
  SpreadTurningPointTimes(RawTurningPointTimes(u, k, peakCount, preCrashEndPct),
                          TurningPointMinGap(peakCount, preCrashEndPct),
                          preCrashEndPct, minFirstPeakPct)

\* The alternation loop of buildTurningPointValues from node i on: every odd
\* node at least minDelta above, every even node at least minDelta below,
\* the node before it.
RECURSIVE AlternateValues(_, _, _, _, _)
AlternateValues(values, i, minDelta, minBoostPct, maxBoostPct) ==
  IF i >= Count(values) - 1 THEN values
  ELSE LET expectedUp == i % 2 = 0
           v == IF expectedUp /\ values[i + 1] <= values[i] + minDelta
                THEN Min2(maxBoostPct, values[i] + minDelta)
                ELSE IF ~expectedUp /\ values[i + 1] >= values[i] - minDelta
                THEN Max2(minBoostPct, values[i] - minDelta)
                ELSE values[i + 1]
       IN  AlternateValues([values EXCEPT ![i + 1] = v], i + 1, minDelta,
                           minBoostPct, maxBoostPct)

\* The peak nodes late enough to carry the highest peak.
EligibleHighest(turningPointTimes, minPeakDelayPct) ==
  {i \in 1..(Count(turningPointTimes) - 1) :
     i % 2 = 1 /\ turningPointTimes[i] >= minPeakDelayPct}

\* highestPeakNode of buildTurningPointValues; the choice among several
\* eligible nodes consumes draw k + 1.
PickHighestPeakNode(u, k, eligible) ==
  IF eligible = {} THEN 1
  ELSE IF Cardinality(eligible) = 1 THEN NthOf(eligible, 0)
  ELSE NthOf(eligible, randomIntOf(u[k + 1], 0, Cardinality(eligible) - 1))

\* The node values of buildTurningPointValues as first drawn: draw d0 is the
\* highest level, each other peak takes two draws, then each valley one.
TurningPointLevels(u, d0, peakCount, minBoostPct, range, startingFloorValue, highestPeakNode) ==
  LET highestLevel == 860000 + MulMicro(u[d0], 120000)
      othersBefore(p) == Cardinality({q \in 1..p : q % 2 = 1 /\ q < p /\ q # highestPeakNode})
      peakLevel(p) ==
        IF p = highestPeakNode THEN highestLevel
        ELSE Min2(520000 + MulMicro(u[d0 + 2 * othersBefore(p) + 1], 280000),
                  highestLevel - (30000 + MulMicro(u[d0 + 2 * othersBefore(p) + 2], 50000)))
      dv == d0 + 2 * (peakCount - 1)
      valleyLevel(i) ==
        IF i = peakCount * 2 THEN 100000 + MulMicro(u[dv + (i \div 2)], 160000)
        ELSE 180000 + MulMicro(u[dv + (i \div 2)], 180000)
  IN  [i \in 0..(peakCount * 2) |->
        IF i = 0 THEN startingFloorValue
        ELSE IF i % 2 = 1 THEN minBoostPct + MulMicro(peakLevel(i), range)
        ELSE Max2(startingFloorValue, minBoostPct + MulMicro(valleyLevel(i), range))]

\* The tie loop of buildTurningPointValues: every peak within tieThreshold
\* of the highest, except the first such, is lowered by range * 0.01; then
\* all values are clamped into the boost range.
SeparateTiedPeaks(values, minBoostPct, maxBoostPct) ==
  LET range == Max2(maxBoostPct - minBoostPct, 0)
      peakNodeIndexes == {i \in DOMAIN values : i % 2 = 1}
      peakMax == SetMax({values[p] : p \in peakNodeIndexes})
      tieThreshold == Max2(RoundDiv(range, 10000), 1)
      tied == {p \in peakNodeIndexes : ~AbsDiffExceeds(values[p], peakMax, tieThreshold)}
  IN  [i \in DOMAIN values |->
        clampValue(IF i \in tied /\ i # SetMin(tied)
                   THEN Max2(minBoostPct, values[i] - RoundDiv(range, 100))
                   ELSE values[i],
                   minBoostPct, maxBoostPct)]

\* buildTurningPointValues; u is the sequence of values the generator
\* returns, of which k are used up.
buildTurningPointValues(u, k, peakCount, minBoostPct, maxBoostPct, turningPointTimes, minPeakDelayPct, startingFloorValue) ==
  IF maxBoostPct - minBoostPct <= 0 THEN [i \in DOMAIN turningPointTimes |-> minBoostPct]
  ELSE SeparateTiedPeaks(
         AlternateValues(
           TurningPointLevels(u,
             k + 1 + (IF Cardinality(EligibleHighest(turningPointTimes, minPeakDelayPct)) > 1
                      THEN 1 ELSE 0),
             peakCount, minBoostPct, maxBoostPct - minBoostPct, startingFloorValue,
             PickHighestPeakNode(u, k, EligibleHighest(turningPointTimes, minPeakDelayPct))),
           0, Max2(RoundDiv((maxBoostPct - minBoostPct) * 5, 100), 500),
           minBoostPct, maxBoostPct),
         minBoostPct, maxBoostPct)

\* 0.5 - 0.5 * Math.cos(Math.PI * i / 64) for i = 0 .. 64, in millionths.
EaseTable ==
  <<
     0, 602, 2408, 5412, 9607, 14984, 21530, 29228,
     38060, 48005, 59039, 71136, 84265, 98396, 113495, 129524,
     146447, 164221, 182803, 202150, 222215, 242949, 264302, 286222,
     308658, 331555, 354858, 378510, 402455, 426635, 450991, 475466,
     500000, 524534, 549009, 573365, 597545, 621490, 645142, 668445,
     691342, 713778, 735698, 757051, 777785, 797850, 817197, 835779,
     853553, 870476, 886505, 901604, 915735, 928864, 940961, 951995,
     961940, 970772, 978470, 985016, 990393, 994588, 997592, 999398,
     1000000
  >>

EaseSteps == Len(EaseTable) - 1

\* 0.5 - 0.5 * cos(pi * p) for a fraction p in millionths: the table,
\* interpolated linearly between neighbouring entries.
CosineEase(p) ==
  LET q == clampValue(p, 0, MICRO)
      i == (q * EaseSteps) \div MICRO
      r == (q * EaseSteps) % MICRO
      lo == EaseTable[i + 1]
      hi == EaseTable[Min2(i + 1, EaseSteps) + 1]
  IN  lo + MulMicro(hi - lo, r)

interpolateTurningPointValue(turningPointTimes, turningPointValues, timePct) ==
  LET lastNodeIndex == Count(turningPointTimes) - 1
      segs == {j \in 0..(lastNodeIndex - 1) :
                 timePct >= turningPointTimes[j] /\ timePct <= turningPointTimes[j + 1]}
      seg == CHOOSE j \in segs : \A m \in segs : j <= m
      start == turningPointTimes[seg]
      end == turningPointTimes[seg + 1]
      segmentPct == DivMicro(timePct - start, Max2(end - start, 1))
      from == turningPointValues[seg]
      to == turningPointValues[seg + 1]
  IN  IF timePct <= turningPointTimes[0] THEN turningPointValues[0]
      ELSE IF timePct >= turningPointTimes[lastNodeIndex]
      THEN turningPointValues[lastNodeIndex]
      ELSE IF segs = {} THEN turningPointValues[lastNodeIndex]
      ELSE from + MulMicro(to - from, CosineEase(segmentPct))

fillCheckpointValuesFromTurningPoints(cps, turningPointTimes, turningPointValues, preCrashLastIndex, minBoostPct, maxBoostPct) ==
  [i \in DOMAIN cps |->
    IF i <= preCrashLastIndex
    THEN [cps[i] EXCEPT !.baseBoostValue =
            clampValue(interpolateTurningPointValue(turningPointTimes,
                         turningPointValues, cps[i].timeOffsetPct),
                       minBoostPct, maxBoostPct)]
    ELSE cps[i]]

fillPostCrashTail(cps, preCrashLastIndex, minBoostPct, maxBoostPct) ==
  LET startValue == cps[preCrashLastIndex].baseBoostValue
      startTimePct == cps[preCrashLastIndex].timeOffsetPct
      denom == Max2(MICRO - startTimePct, 1)
      target(i) ==
        LET progress == DivMicro(cps[i].timeOffsetPct - startTimePct, denom)
            eased == MulMicro(progress, progress)
        IN  MulMicro(startValue, MICRO - eased)
  IN  IF preCrashLastIndex >= Count(cps) - 2 THEN cps
      ELSE [i \in DOMAIN cps |->
             IF i > preCrashLastIndex /\ i < Count(cps) - 1
             THEN [cps[i] EXCEPT !.baseBoostValue =
                     clampValue(target(i), RoundDiv(minBoostPct, 10), maxBoostPct)]
             ELSE cps[i]]

\* Character codes of the seed prefixes.
RidePrefix == <<114, 105, 100, 101, 58>>

PeakDelayPromotePrefix ==
  <<112, 101, 97, 107, 45, 100, 101, 108, 97, 121, 45,
    112, 114, 111, 109, 111, 116, 101, 58>>

StartBiasPrefix == <<115, 116, 97, 114, 116, 45, 98, 105, 97, 115, 58>>

\* The generators of the ride shape, of the peak promotion and of the
\* start bias: new SeededRandom(`ride:${seed}`) and its like.
rideRng(seed) == SeededRandomNew(RidePrefix \o seed)

peakDelayPromoteRng(seed) == SeededRandomNew(PeakDelayPromotePrefix \o seed)

startBiasRng(seed) == SeededRandomNew(StartBiasPrefix \o seed)

enforcePeakDelayWithoutFlattening(cps, minBoostPct, maxBoostPct, durationMs, crashPct, minPeakDelayMs, seed) ==
  LET minPeakDelayPct == DivMicro(minPeakDelayMs, durationMs)
      effectiveCrashPct == EffectiveCrashPct(crashPct)
      before == {i \in DOMAIN cps : cps[i].timeOffsetPct < effectiveCrashPct}
      maxValue == SetMax({cps[i].baseBoostValue : i \in before})
      maxIndex == SetMin({i \in before : cps[i].baseBoostValue = maxValue})
      candidateIndexes == {i \in before : cps[i].timeOffsetPct >= minPeakDelayPct}
      range == Max2(maxBoostPct - minBoostPct, 0)
      epsilon == Max2(RoundDiv(range, 100), 500)
      rng == peakDelayPromoteRng(seed)
      n == Cardinality(candidateIndexes)
      promoteIndex == NthOf(candidateIndexes,
                            IF n > 1 THEN randomIntOf(Draw(rng, 1), 0, n - 1) ELSE 0)
      promoted == clampValue(maxValue + epsilon, minBoostPct, maxBoostPct)
  IN  IF Count(cps) < 3 \/ durationMs <= 0 THEN cps
      ELSE IF minPeakDelayPct <= 0 \/ minPeakDelayPct >= effectiveCrashPct THEN cps
      ELSE IF before = {} THEN cps
      ELSE IF cps[maxIndex].timeOffsetPct >= minPeakDelayPct THEN cps
      ELSE IF candidateIndexes = {} THEN cps
      ELSE [cps EXCEPT ![promoteIndex].baseBoostValue = promoted]

enforcePreCrashFloor(cps, minBoostPct, maxBoostPct, crashPct, floorValue) ==
  LET preCrashLastIndex == getPreCrashLastCheckpointIndex(cps, crashPct)
      floor == clampValue(floorValue, minBoostPct, maxBoostPct)
  IN  IF Count(cps) < 2 THEN cps
      ELSE [i \in DOMAIN cps |->
             IF i >= 1 /\ i <= preCrashLastIndex /\ cps[i].baseBoostValue < floor
             THEN [cps[i] EXCEPT !.baseBoostValue = floor]
             ELSE cps[i]]

enforceUniquePreCrashMaximum(cps, minBoostPct, maxBoostPct, crashPct) ==
  LET preCrashLastIndex == getPreCrashLastCheckpointIndex(cps, crashPct)
      maxValue == SetMax({cps[i].baseBoostValue : i \in 0..preCrashLastIndex})
      range == Max2(maxBoostPct - minBoostPct, 0)
      threshold == Max2(RoundDiv(range, 10000), 1)
      epsilon == Max2(RoundDiv(range * 8, 1000), 200)
      near == {i \in 0..preCrashLastIndex :
                 ~AbsDiffExceeds(cps[i].baseBoostValue, maxValue, threshold)}
      duplicateOrder(i) == Cardinality({j \in near : j < i})
  IN  IF Count(cps) < 3 THEN cps
      ELSE [i \in DOMAIN cps |->
             IF i \in near /\ duplicateOrder(i) >= 1
             THEN [cps[i] EXCEPT !.baseBoostValue =
                     clampValue(maxValue - (epsilon * duplicateOrder(i)),
                                minBoostPct, maxBoostPct)]
             ELSE cps[i]]

applyStartDirectionBias(cps, seed, minBoostPct, maxBoostPct, ticketStrength) ==
  LET strength == clampValue(ticketStrength, 0, MICRO)
      first == cps[0].baseBoostValue
      rng == startBiasRng(seed)
      flipChance == MulMicro(700000, strength)
      range == Max2(maxBoostPct - minBoostPct, 0)
      step == Max2(RoundDiv(range * 3, 100), 1)
      up == Min2(maxBoostPct, first + step)
      newFirst == IF up <= first THEN Max2(minBoostPct, first - step) ELSE first
      newSecond == IF up <= first THEN Min2(maxBoostPct, newFirst + step) ELSE up
  IN  IF Count(cps) < 2 \/ strength <= 0 THEN cps
      ELSE IF cps[1].baseBoostValue > first THEN cps
      ELSE IF Draw(rng, 1) >= flipChance THEN cps
      ELSE [cps EXCEPT ![0].baseBoostValue = newFirst, ![1].baseBoostValue = newSecond]

\* The loop of enforceInitialClimb over the checkpoints before the climb
\* boundary, which are 1 .. count: checkpoint i is raised to at least
\* adaptiveStep above its predecessor.
RECURSIVE ClimbBeforeBoundary(_, _, _, _, _)
ClimbBeforeBoundary(cps, i, count, adaptiveStep, preBoundaryCap) ==
  IF i > count THEN cps
  ELSE LET remaining == count - i
           minForPoint == cps[i - 1].baseBoostValue + adaptiveStep
           maxForPoint == preBoundaryCap - adaptiveStep * (remaining + 1)
           upperBound == Max2(minForPoint, maxForPoint)
           target == clampValue(cps[i].baseBoostValue, minForPoint, upperBound)
       IN  ClimbBeforeBoundary([cps EXCEPT ![i].baseBoostValue = target],
                               i + 1, count, adaptiveStep, preBoundaryCap)

enforceInitialClimb(cps, minBoostPct, maxBoostPct, durationMs, crashPct, initialClimbMs) ==
  LET effectiveCrashPct == EffectiveCrashPct(crashPct)
      initialClimbPct == DivMicro(initialClimbMs, durationMs)
      climbEndPct == Min2(initialClimbPct, effectiveCrashPct - 1)
      range == Max2(maxBoostPct - minBoostPct, 0)
      preBoundaryCap == Max2(minBoostPct,
                             maxBoostPct - Max2(RoundDiv(range * 5, 1000), 1))
      inner == {i \in DOMAIN cps : i >= 1}
      beforeBoundaryIndexes == {i \in inner : cps[i].timeOffsetPct < climbEndPct}
      count == Cardinality(beforeBoundaryIndexes)
      rest == {i \in inner : cps[i].timeOffsetPct >= climbEndPct}
      boundaryIndex ==
        IF rest = {} THEN -1
        ELSE IF cps[SetMin(rest)].timeOffsetPct >= effectiveCrashPct THEN -1
        ELSE SetMin(rest)
      defaultStep == Max2(RoundDiv(range * 4, 1000), 10)
      availableHeadroom == Max2(preBoundaryCap - cps[0].baseBoostValue, 0)
      adaptiveStep ==
        IF count > 0
        THEN Max2(Min2(defaultStep, RoundDiv(availableHeadroom, count + 1)), 1)
        ELSE defaultStep
      maxStart == preBoundaryCap - adaptiveStep * (count + 1)
      lowered ==
        IF count > 0 /\ cps[0].baseBoostValue > maxStart
        THEN [cps EXCEPT ![0].baseBoostValue =
                clampValue(maxStart, minBoostPct, preBoundaryCap - adaptiveStep)]
        ELSE cps
      climbed == ClimbBeforeBoundary(lowered, 1, count, adaptiveStep, preBoundaryCap)
      prev == climbed[boundaryIndex - 1].baseBoostValue
      clamped == clampValue(Max2(climbed[boundaryIndex].baseBoostValue,
                                 prev + adaptiveStep),
                            minBoostPct, maxBoostPct)
      nudge == Min2(maxBoostPct - prev, 1)
      boundaryTarget ==
        IF clamped <= prev THEN (IF nudge > 0 THEN prev + nudge ELSE prev)
        ELSE clamped
  IN  IF Count(cps) < 2 \/ durationMs <= 0 \/ initialClimbMs <= 0 THEN cps
      ELSE IF climbEndPct <= 0 THEN cps
      ELSE IF count = 0 /\ boundaryIndex < 1 THEN cps
      ELSE IF boundaryIndex > 0
      THEN [climbed EXCEPT ![boundaryIndex].baseBoostValue = boundaryTarget]
      ELSE climbed

\* directionOf(curr - prev, threshold): the two operands of the difference are
\* passed apart so that the comparison is the doubles' one.
directionOf(curr, prev, threshold) ==
  IF ~AbsDiffExceeds(curr, prev, threshold) THEN 0
  ELSE IF curr > prev THEN 1 ELSE -1

inferDirection(cps, startIndex, preCrashLastIndex, threshold) ==
  LET moving == {i \in (startIndex + 1)..preCrashLastIndex :
                   directionOf(cps[i].baseBoostValue, cps[i - 1].baseBoostValue,
                               threshold) # 0}
  IN  IF moving = {} THEN 1
      ELSE LET i == SetMin(moving)
           IN  directionOf(cps[i].baseBoostValue, cps[i - 1].baseBoostValue, threshold)

\* The loop of enforceNoFlatSegmentsBeforeCrash from checkpoint i on.
RECURSIVE NoFlatFrom(_, _, _, _, _, _, _)
NoFlatFrom(cps, i, preCrashLastIndex, threshold, step, minPreCrashValue, maxBoostPct) ==
  IF i > preCrashLastIndex THEN cps
  ELSE LET prev == cps[i - 1].baseBoostValue
           curr == cps[i].baseBoostValue
           direction == inferDirection(cps, i, preCrashLastIndex, threshold)
           a1 == clampValue(prev + (direction * step), minPreCrashValue, maxBoostPct)
           a2 == IF ~AbsDiffExceeds(a1, prev, threshold)
                 THEN clampValue(prev - (direction * step), minPreCrashValue, maxBoostPct)
                 ELSE a1
           a3 == IF ~AbsDiffExceeds(a2, prev, threshold)
                 THEN clampValue(prev + direction, minPreCrashValue, maxBoostPct)
                 ELSE a2
           next == IF AbsDiffExceeds(curr, prev, threshold) THEN cps
                   ELSE [cps EXCEPT ![i].baseBoostValue = a3]
       IN  NoFlatFrom(next, i + 1, preCrashLastIndex, threshold, step,
                      minPreCrashValue, maxBoostPct)

enforceNoFlatSegmentsBeforeCrash(cps, minBoostPct, maxBoostPct, crashPct, minPreCrashValue) ==
  LET preCrashLastIndex == getPreCrashLastCheckpointIndex(cps, crashPct)
      range == Max2(maxBoostPct - minBoostPct, 0)
      threshold == Max2(RoundDiv(range * 5, 10000), 1)
      step == Max2(RoundDiv(range * 2, 1000), 10)
      floor == clampValue(minPreCrashValue, minBoostPct, maxBoostPct)
  IN  IF Count(cps) < 3 THEN cps
      ELSE NoFlatFrom(cps, 1, preCrashLastIndex, threshold, step, floor, maxBoostPct)

\* initialClimbSeconds: 2, in milliseconds.
InitialClimbMs == 2000

\* Math.min(4, peakCapByPoints): a ride has at most 4 peaks.
MaxPeakCount == 4

\* The most draws one call of generateRide takes from its generator: the
\* peak count, the inner node times, the choice and level of the highest
\* peak, two per other peak and one per valley.
MaxRideDraws == 1 + (2 * MaxPeakCount - 1) + 2 + 2 * (MaxPeakCount - 1) + MaxPeakCount

\* The number of draws buildTurningPointValues takes from the generator.
TurningPointValueDraws(peakCount, minBoostPct, maxBoostPct, turningPointTimes, minPeakDelayPct) ==
  IF maxBoostPct - minBoostPct <= 0 THEN 0
  ELSE (IF Cardinality(EligibleHighest(turningPointTimes, minPeakDelayPct)) > 1
        THEN 1 ELSE 0)
       + 1 + 2 * (peakCount - 1) + peakCount

\* Math.max(initialClimbPct, minPeakDelayPct) of generateRide.
MinFirstPeakPct(cfg, preCrashEndPct) ==
  Max2(getInitialClimbPct(cfg.durationMs, preCrashEndPct, InitialClimbMs),
       getInitialClimbPct(cfg.durationMs, preCrashEndPct, cfg.minPeakDelayMs))

\* Math.min(4, peakCapByPoints) of generateRide.
PeakCountCap(preCrashLastIndex) == Min2(MaxPeakCount, Max2(1, preCrashLastIndex \div 2))

\* generateRide from the turning-point times on; k2 draws are used up.
ShapeWithTimes(cps, u, cfg, preCrashLastIndex, minFirst, k2, peakCount, turningPointTimes) ==
  [cps |-> fillPostCrashTail(
             fillCheckpointValuesFromTurningPoints(cps, turningPointTimes,
               buildTurningPointValues(u, k2, peakCount, cfg.minBoostPct, cfg.maxBoostPct,
                                       turningPointTimes, minFirst, cps[0].baseBoostValue),
               preCrashLastIndex, cfg.minBoostPct, cfg.maxBoostPct),
             preCrashLastIndex, cfg.minBoostPct, cfg.maxBoostPct),
   draws |-> k2 + TurningPointValueDraws(peakCount, cfg.minBoostPct, cfg.maxBoostPct,
                                         turningPointTimes, minFirst)]

\* generateRide from the peak count on; k draws are used up.
ShapeWithPeaks(cps, u, cfg, preCrashLastIndex, minFirst, k, peakCount) ==
  ShapeWithTimes(cps, u, cfg, preCrashLastIndex, minFirst, k + (2 * peakCount - 1), peakCount,
                 buildTurningPointTimes(u, k, peakCount,
                                        cps[preCrashLastIndex].timeOffsetPct, minFirst))

\* generateRide from the pre-crash boundary on: randomInt draws the peak
\* count only when more than one count is possible.
ShapeAt(cps, u, cfg, preCrashLastIndex) ==
  ShapeWithPeaks(cps, u, cfg, preCrashLastIndex,
                 MinFirstPeakPct(cfg, cps[preCrashLastIndex].timeOffsetPct),
                 IF PeakCountCap(preCrashLastIndex) > 1 THEN 1 ELSE 0,
                 IF PeakCountCap(preCrashLastIndex) > 1
                 THEN randomIntOf(u[1], 1, PeakCountCap(preCrashLastIndex)) ELSE 1)

\* The turning-point synthesis of generateRide (its body under
\* "if (preCrashLastIndex >= 1)"), with the ride generator in state s:
\* the checkpoints it leaves and the number of draws it took.
ShapeOf(cps, s, cfg) ==
  ShapeAt(cps, DrawsFrom(s, MaxRideDraws, <<>>), cfg,
          getPreCrashLastCheckpointIndex(cps, cfg.crashPct))

SynthesizeShape(cps, s, cfg) == ShapeOf(cps, s, cfg).cps

\* The six enforcement passes of generateRide in program order (pass 1..6),
\* and the final reset of the last checkpoint (pass 7).
PassCount == 7

RidePass(n, cps, seed, cfg, startingFloorValue) ==
  CASE n = 1 -> applyStartDirectionBias(cps, seed, cfg.minBoostPct, cfg.maxBoostPct,
                                        cfg.ticketStrength)
    [] n = 2 -> enforceInitialClimb(cps, cfg.minBoostPct, cfg.maxBoostPct,
                                    cfg.durationMs, cfg.crashPct, InitialClimbMs)
    [] n = 3 -> enforcePeakDelayWithoutFlattening(cps, cfg.minBoostPct, cfg.maxBoostPct,
                  cfg.durationMs, cfg.crashPct, cfg.minPeakDelayMs, seed)
    [] n = 4 -> enforcePreCrashFloor(cps, cfg.minBoostPct, cfg.maxBoostPct,
                                     cfg.crashPct, startingFloorValue)
    [] n = 5 -> enforceUniquePreCrashMaximum(cps, cfg.minBoostPct, cfg.maxBoostPct,
                                             cfg.crashPct)
    [] n = 6 -> enforceNoFlatSegmentsBeforeCrash(cps, cfg.minBoostPct, cfg.maxBoostPct,
                                                 cfg.crashPct, startingFloorValue)
    [] OTHER -> [cps EXCEPT ![Count(cps) - 1].baseBoostValue = 0]

RECURSIVE RunPasses(_, _, _, _, _)
RunPasses(n, cps, seed, cfg, startingFloorValue) ==
  IF n > PassCount THEN cps
  ELSE RunPasses(n + 1, RidePass(n, cps, seed, cfg, startingFloorValue),
                 seed, cfg, startingFloorValue)

\* generateRide(seed, config).checkpoints
generateRide(seed, cfg) ==
  LET normalizedCheckpointCount == Max2(3, cfg.checkpointCount)
      rng == rideRng(seed)
      initial == initializeCheckpoints(normalizedCheckpointCount, cfg.minBoostPct,
                                       cfg.maxBoostPct, cfg.ticketStrength)
      startingFloorValue == initial[0].baseBoostValue
      shaped == SynthesizeShape(initial, rng, cfg)
  IN  RunPasses(1, shaped, seed, cfg, startingFloorValue)

\* ------------------------------------------------------------------------
\* Ride parameters derived from the seed (deriveRideParams and friends).
\* Durations are milliseconds; the crash fraction is rounded to 4 decimals
\* and kept in millionths.
\* ------------------------------------------------------------------------

\* "duration:" and "crash:" as character codes.
DurationPrefix == <<100, 117, 114, 97, 116, 105, 111, 110, 58>>

CrashPrefix == <<99, 114, 97, 115, 104, 58>>

\* The generators of the duration and of the crash point.
durationRng(seed) == SeededRandomNew(DurationPrefix \o seed)

crashRng(seed) == SeededRandomNew(CrashPrefix \o seed)

\* deriveRideDurationSeconds: round(rng.nextRange(min, max), 3), in ms.
deriveRideDurationSeconds(seed, minMs, maxMs) ==
  minMs + MulMicro(Draw(durationRng(seed), 1), maxMs - minMs)

\* betaSample(new SeededRandom("crash:" + seed), 10, 5).  The sampler takes
\* square roots, logarithms and cosines of its draws; its result is
\* tabulated for the seeds of the model ("s1", "s3").
betaSample(seed) ==
  CASE seed = <<115, 49>> -> 647511
    [] seed = <<115, 51>> -> 588970

\* The scaling, clamping and rounding of deriveCrashPct; lengths are
\* tenths of a millisecond.
CrashPctOf(sample, durationMs, minCrash) ==
  LET crashTenths == minCrash * 10 + MulMicro(sample, Max2(durationMs - minCrash, 0) * 10)
      crashPct == clampValue(DivMicro(crashTenths, durationMs * 10), 10000, 990000)
  IN  RoundDiv(crashPct, 100) * 100

deriveCrashPct(seed, durationMs, minCrashMs) ==
  IF durationMs <= 0 THEN MICRO
  ELSE CrashPctOf(betaSample(seed), durationMs, Max2(0, Min2(minCrashMs, durationMs)))

\* deriveRideParams: count and volatility come from the unsalted seed.
deriveRideParams(seed, durationMs, minCrashMs) ==
  [checkpointCount |-> Max2(6, RoundDiv(8 * MICRO + 10 * Draw(SeededRandomNew(seed), 1), MICRO)),
   volatility |-> RoundDiv(250000 + MulMicro(Draw(SeededRandomNew(seed), 2), 600000), 100) * 100,
   crashPct |-> deriveCrashPct(seed, durationMs, minCrashMs)]

\* floor(a * MICRO / d) for 0 <= a, 0 < d < 2000000.
DivMicroFloor(a, d) ==
  LET r0 == a % d
      r1 == (r0 * 1000) % d
  IN  (a \div d) * MICRO + ((r0 * 1000) \div d) * 1000 + ((r1 * 1000) \div d)

\* calculateElapsedPct with the current time passed in.  The fraction is
\* rounded down, so comparing it with a whole number of millionths gives
\* the answer of the exact quotient.
calculateElapsedPctFromZero(startTime, endTime, current) ==
  IF endTime - startTime <= 0 THEN 0
  ELSE DivMicroFloor(current - startTime, endTime - startTime)

calculateElapsedPct(startTime, endTime, current) ==
  IF endTime - startTime <= 0 THEN MICRO
  ELSE DivMicroFloor(current - startTime, endTime - startTime)

hasRideEnded(startTime, endTime, current) ==
  calculateElapsedPct(startTime, endTime, current) >= MICRO

\* The linear interpolation of interpolateRideValue between lower and upper.
InterpolateBetween(lower, upper, pct) ==
  lower.baseBoostValue
    + MulMicro(DivMicro(pct - lower.timeOffsetPct, upper.timeOffsetPct - lower.timeOffsetPct),
               upper.baseBoostValue - lower.baseBoostValue)

\* The loop of interpolateRideValue: the first segment that contains pct,
\* or segment 0 when none does.
LowerIndexOf(cps, pct) ==
  LET hit == {i \in 0..(Count(cps) - 2) :
                cps[i].timeOffsetPct <= pct /\ cps[i + 1].timeOffsetPct > pct}
  IN  IF hit = {} THEN 0 ELSE SetMin(hit)

InterpolateClamped(cps, pct, last) ==
  IF pct <= cps[0].timeOffsetPct THEN cps[0].baseBoostValue
  ELSE IF pct >= cps[last].timeOffsetPct THEN cps[last].baseBoostValue
  ELSE InterpolateBetween(cps[LowerIndexOf(cps, pct)], cps[LowerIndexOf(cps, pct) + 1], pct)

interpolateRideValue(cps, elapsedPct) ==
  IF Count(cps) = 0 THEN 0
  ELSE InterpolateClamped(cps, clampValue(elapsedPct, 0, MICRO), Count(cps) - 1)

\* ------------------------------------------------------------------------
\* Ticket evaluation and the boost model.  Odds count millionths; a
\* selection is [odds, eligible] and a ticket is a sequence of selections.
\* ------------------------------------------------------------------------

IsQualifying(selection, minSelectionOdds) ==
  selection.eligible /\ selection.odds >= minSelectionOdds

\* The qualifying list of filterQualifyingSelections.
filterQualifyingSelections(selections, minSelectionOdds) ==
  SelectSeq(selections, LAMBDA s : IsQualifying(s, minSelectionOdds))

RECURSIVE OddsProduct(_, _, _)
OddsProduct(selections, i, product) ==
  IF i > Len(selections) THEN product
  ELSE OddsProduct(selections, i + 1, MulMicro(product, selections[i].odds))

calculateCombinedOdds(selections) ==
  IF Len(selections) = 0 THEN 0 ELSE OddsProduct(selections, 1, MICRO)

meetsMinSelectionCount(qualifyingCount, minSelections) == qualifyingCount >= minSelections

meetsCombinedOddsThreshold(combinedOdds, minCombinedOdds) == combinedOdds >= minCombinedOdds

\* Math.log(combinedOdds) / Math.log(baseOdds * 100) with baseOdds = 3, on
\* the combined odds of the model's tickets.
OddsFactor(combinedOdds) ==
  CASE combinedOdds = 1200000 -> 31965
    [] combinedOdds = 1500000 -> 71087
    [] combinedOdds = 3000000 -> 192611
    [] combinedOdds = 10000000 -> 403694
    [] combinedOdds = 64000000 -> 729145
    [] combinedOdds = 300000000 -> MICRO
    [] combinedOdds = 1000000000 -> 1211083

\* Math.pow(x, 1.5) on the factors of the model's tickets.
Pow15(x) ==
  CASE x = 100000 -> 31623
    [] x = 192611 -> 84532
    [] x = 200000 -> 89443
    [] x = 300000 -> 164317
    [] x = 400000 -> 252982
    [] x = 403694 -> 256495
    [] x = 500000 -> 353553
    [] x = 600000 -> 464758
    [] x = 700000 -> 585662
    [] x = 729145 -> 622617
    [] x = 800000 -> 715542
    [] x = 900000 -> 853815
    [] x = MICRO -> MICRO
    [] x = 1211083 -> 1332787

computeTicketStrengthCappedAtFive(qualifyingCount, combinedOdds, minSelections) ==
  IF qualifyingCount < minSelections \/ combinedOdds <= MICRO THEN 0
  ELSE Min2(MulMicro(Pow15((Min2(qualifyingCount - minSelections + 1, 5) * MICRO) \div 10),
                     Pow15(Max2(OddsFactor(combinedOdds), 100000))),
            MICRO)

computeTicketStrength(qualifyingCount, combinedOdds, minSelections) ==
  IF qualifyingCount < minSelections \/ combinedOdds <= MICRO THEN 0
  ELSE Min2(MulMicro(Pow15((Min2(qualifyingCount - minSelections + 1, 10) * MICRO) \div 10),
                     Pow15(Max2(OddsFactor(combinedOdds), 100000))),
            MICRO)

\* Math.pow(ratio, 1.2) on the ratios of the model (MAX_ELIGIBILITY_EXPONENT).
Pow12(ratio) ==
  CASE ratio = 0 -> 0
    [] ratio = 500000 -> 435275
    [] ratio = 750000 -> 708066
    [] ratio = MICRO -> MICRO

\* Math.pow(component, 0.75) and Math.pow(component, 0.25), which the
\* program applies when both thresholds are configured.
Pow075(component) ==
  CASE component = 0 -> 0
    [] component = 708066 -> 771893
    [] component = MICRO -> MICRO

Pow025(component) ==
  CASE component = 0 -> 0
    [] component = MICRO -> MICRO

\* Math.max(0, Math.min(value / target, 1)).
TargetRatio(value, target) == clampValue(DivMicro(value, target), 0, MICRO)

\* eligibilityFactor of computeBoostModelDetails.  Targets are 0 when the
\* profile has none; odds are compared in ten-thousandths.
EligibilityFactor(qualifyingSelections, combinedOdds, selectionTarget, oddsTarget) ==
  IF selectionTarget <= 0 /\ oddsTarget <= 0 THEN MICRO
  ELSE IF selectionTarget > 0 /\ oddsTarget > 0
    THEN Min2(MICRO, MulMicro(Pow075(Pow12(TargetRatio(qualifyingSelections, selectionTarget))),
                              Pow025(Pow12(TargetRatio(combinedOdds \div 100, oddsTarget \div 100)))))
  ELSE IF selectionTarget > 0 THEN Pow12(TargetRatio(qualifyingSelections, selectionTarget))
  ELSE Pow12(TargetRatio(combinedOdds \div 100, oddsTarget \div 100))

\* The window of computeBoostModelDetails for a given eligibility factor.
BoostWindow(minBoost, boundedMax, floorLiftFactor, eligibilityFactor) ==
  [eligibilityFactor |-> eligibilityFactor,
   effectiveMinBoost |->
     clampValue(minBoost + MulMicro(boundedMax - minBoost, floorLiftFactor), minBoost, boundedMax),
   effectiveMaxBoost |-> boundedMax]

BoostModelOf(config, eligibilityFactor, hasAnyTarget) ==
  BoostWindow(config.minBoostPct,
              Max2(config.minBoostPct,
                   config.minBoostPct
                     + MulMicro(config.maxBoostPct - config.minBoostPct, eligibilityFactor)),
              IF hasAnyTarget THEN MulMicro(eligibilityFactor, 350000) ELSE 0,
              eligibilityFactor)

computeBoostModelDetails(qualifyingSelections, combinedOdds, config) ==
  BoostModelOf(config,
               EligibilityFactor(qualifyingSelections, combinedOdds,
                                 config.maxBoostMinSelections, config.maxBoostMinCombinedOdds),
               config.maxBoostMinSelections > 0 \/ config.maxBoostMinCombinedOdds > 0)

\* rawBoost of calculateFinalBoostDetails; the mid point is kept doubled.
RawBoost(rideValue, doubledMidPoint, volatilityMultiplier, strengthMultiplier) ==
  RoundDiv(MulMicro(doubledMidPoint + MulMicro(2 * rideValue - doubledMidPoint, volatilityMultiplier),
                    strengthMultiplier), 2)

FinalBoostUnclamped(rawBoost, boostModel) ==
  [finalBoostPct |-> rawBoost,
   rawBoost |-> rawBoost,
   effectiveMaxBoost |-> boostModel.effectiveMaxBoost,
   minBoost |-> boostModel.effectiveMinBoost,
   isClampedToMax |-> rawBoost > boostModel.effectiveMaxBoost,
   isClampedToMin |-> rawBoost < boostModel.effectiveMinBoost]

FinalBoostOf(rawBoost, boostModel) ==
  [finalBoostPct |-> clampValue(rawBoost, boostModel.effectiveMinBoost, boostModel.effectiveMaxBoost),
   rawBoost |-> rawBoost,
   effectiveMaxBoost |-> boostModel.effectiveMaxBoost,
   minBoost |-> boostModel.effectiveMinBoost,
   isClampedToMax |-> rawBoost > boostModel.effectiveMaxBoost,
   isClampedToMin |-> rawBoost < boostModel.effectiveMinBoost]

FinalBoostIn(rideValue, ticketStrength, ended, boostModel) ==
  IF ended
    THEN [finalBoostPct |-> 0, rawBoost |-> 0,
          effectiveMaxBoost |-> boostModel.effectiveMaxBoost,
          minBoost |-> boostModel.effectiveMinBoost,
          isClampedToMax |-> FALSE, isClampedToMin |-> FALSE]
    ELSE FinalBoostOf(RawBoost(rideValue,
                               boostModel.effectiveMinBoost + boostModel.effectiveMaxBoost,
                               500000 + MulMicro(ticketStrength, 800000),
                               400000 + MulMicro(ticketStrength, 600000)),
                      boostModel)

calculateFinalBoostDetails(rideValue, ticketStrength, qualifyingSelections, combinedOdds, ended, config) ==
  FinalBoostIn(rideValue, ticketStrength, ended,
               computeBoostModelDetails(qualifyingSelections, combinedOdds, config))

\* Math.pow(normalized, 0.65) of buildDisplayBoost on the ratios of the paths
\* built here.
Pow065(normalized) ==
  CASE normalized = 0 -> 0
    [] normalized = 77174 -> 189172
    [] normalized = 80939 -> 195120
    [] normalized = 131417 -> 267377
    [] normalized = 290287 -> 447546
    [] normalized = 337396 -> 493504
    [] normalized = 358804 -> 513638
    [] normalized = 575292 -> 698116
    [] normalized = 590174 -> 709802
    [] normalized = 649181 -> 755158
    [] normalized = 696946 -> 790823
    [] normalized = 698182 -> 791735
    [] normalized = 705675 -> 797247
    [] normalized = 725195 -> 811513
    [] normalized = 728542 -> 813946
    [] normalized = 806304 -> 869409
    [] normalized = 807094 -> 869963
    [] normalized = 854514 -> 902854
    [] normalized = 884792 -> 923521
    [] normalized = 926365 -> 951499
    [] normalized = 952219 -> 968677
    [] normalized = 961874 -> 975050
    [] normalized = 969461 -> 980042
    [] normalized = 987081 -> 991584
    [] normalized = 987939 -> 992144
    [] normalized = 993614 -> 995844
    [] normalized = 997903 -> 998636
    [] normalized = 998660 -> 999129
    [] normalized = MICRO -> MICRO

\* buildDisplayBoost: a clamped sample is mapped into the headroom under the
\* cap, or above the floor, in proportion to its overshoot or undershoot.
DisplayUnderCap(details, capRange, overshoot, maxOvershoot) ==
  IF maxOvershoot <= 0 \/ overshoot <= 0 THEN details.finalBoostPct
  ELSE LET capHeadroom == Max2(MulMicro(capRange, 350000), 1000)
           normalizedDisplay == Pow065(clampValue(DivMicro(overshoot, maxOvershoot), 0, MICRO))
           display == details.effectiveMaxBoost - capHeadroom
                        + MulMicro(normalizedDisplay, capHeadroom)
       IN  Max2(details.minBoost, Min2(details.effectiveMaxBoost, display))

DisplayAboveFloor(details, capRange, undershoot, maxUndershoot) ==
  IF maxUndershoot <= 0 \/ undershoot <= 0 THEN details.finalBoostPct
  ELSE LET floorHeadroom == Max2(MulMicro(capRange, 350000), 1000)
           normalizedDisplay ==
             MICRO - Pow065(clampValue(DivMicro(undershoot, maxUndershoot), 0, MICRO))
           display == details.minBoost + MulMicro(normalizedDisplay, floorHeadroom)
       IN  Max2(details.minBoost, Min2(details.effectiveMaxBoost, display))

buildDisplayBoost(details, maxOvershoot, maxUndershoot) ==
  LET capRange == Max2(details.effectiveMaxBoost - details.minBoost, 0)
  IN  IF ~details.isClampedToMax /\ ~details.isClampedToMin THEN details.finalBoostPct
      ELSE IF capRange <= 0 THEN details.finalBoostPct
      ELSE IF details.isClampedToMax
        THEN DisplayUnderCap(details, capRange,
                             Max2(details.rawBoost - details.effectiveMaxBoost, 0),
                             maxOvershoot)
      ELSE DisplayAboveFloor(details, capRange,
                             Max2(details.minBoost - details.rawBoost, 0), maxUndershoot)

\* timePct of sample i of a path of sampleCount points.
SampleTimePct(i, sampleCount) == RoundDiv(i * MICRO, sampleCount - 1)

\* The first loop of buildEffectiveRidePath: the boost details of every
\* sample, with a ride value of 0 from the crash point on.
PathDetails(cps, sampleCount, crashPct, ticketStrength, config, qualifyingSelections, combinedOdds) ==
  [i \in 0..(sampleCount - 1) |->
     calculateFinalBoostDetails(
       IF SampleTimePct(i, sampleCount) >= crashPct THEN 0
       ELSE interpolateRideValue(cps, SampleTimePct(i, sampleCount)),
       ticketStrength, qualifyingSelections, combinedOdds, FALSE, config)]

\* maxOvershoot and maxUndershoot over the samples before the crash point.
MaxOvershoot(precomputed, sampleCount, crashPct) ==
  SetMax({0} \cup {precomputed[i].rawBoost - precomputed[i].effectiveMaxBoost :
                     i \in {j \in DOMAIN precomputed :
                              /\ SampleTimePct(j, sampleCount) < crashPct
                              /\ precomputed[j].isClampedToMax}})

MaxUndershoot(precomputed, sampleCount, crashPct) ==
  SetMax({0} \cup {precomputed[i].minBoost - precomputed[i].rawBoost :
                     i \in {j \in DOMAIN precomputed :
                              /\ SampleTimePct(j, sampleCount) < crashPct
                              /\ precomputed[j].isClampedToMin}})

\* The second loop of buildEffectiveRidePath.
PathPointsUncrashed(precomputed, sampleCount, crashPct, maxOvershoot, maxUndershoot) ==
  [i \in DOMAIN precomputed |->
     [timePct |-> SampleTimePct(i, sampleCount),
      baseBoostValue |-> buildDisplayBoost(precomputed[i], maxOvershoot, maxUndershoot)]]

PathPoints(precomputed, sampleCount, crashPct, maxOvershoot, maxUndershoot) ==
  [i \in DOMAIN precomputed |->
     [timePct |-> SampleTimePct(i, sampleCount),
      baseBoostValue |->
        IF SampleTimePct(i, sampleCount) >= crashPct THEN 0
        ELSE buildDisplayBoost(precomputed[i], maxOvershoot, maxUndershoot)]]

PathOf(precomputed, sampleCount, crashPct) ==
  PathPoints(precomputed, sampleCount, crashPct,
             MaxOvershoot(precomputed, sampleCount, crashPct),
             MaxUndershoot(precomputed, sampleCount, crashPct))

buildEffectiveRidePath(cps, sampleCount, crashPct, ticketStrength, config, qualifyingSelections, combinedOdds) ==
  IF Count(cps) = 0 \/ sampleCount < 2 THEN <<>>
  ELSE PathOf(PathDetails(cps, sampleCount, crashPct, ticketStrength, config,
                          qualifyingSelections, combinedOdds),
              sampleCount, crashPct)

\* calculateBonusAmount; winnings and bonus count ten-thousandths.
calculateBonusAmount(winnings, boostPct) ==
  IF winnings <= 0 \/ boostPct <= 0 THEN 0 ELSE MulMicro(winnings, boostPct)

\* ------------------------------------------------------------------------
\* Ride generation as a process: one call of generateRide at a time, taken
\* step by step.  rng is the generator object of the call; after the call
\* returns, the variable keeps the state the call left behind.
\* ------------------------------------------------------------------------

VARIABLES now, rng, rideCall, rideLog, profile, rewards, rideDefs, locks, settlements, calls,
          applied, replayCache, accepted, replayed

rideVars == <<rng, rideCall, rideLog>>

svcVars == <<profile, rewards, rideDefs, locks, settlements, calls>>

\* applied is one application of a function of the computations modules:
\* the function, its arguments and, once it has returned, its result.
\* replayCache is the replay cache of the authentication middleware, in
\* insertion order; accepted holds the signatures accepted so far and
\* replayed those accepted more than once.
authVars == <<replayCache, accepted, replayed>>

outerVars == <<applied, authVars>>

vars == <<now, rng, rideCall, rideLog, profile, rewards, rideDefs, locks, settlements, calls,
          applied, replayCache, accepted, replayed>>

MaxTicks == 2

MaxRideCalls == 2

RideSeeds == {<<115, 49>>, <<115, 50>>, <<115, 53>>}

RideConfig(n, lo, hi, strength, duration, crash) ==
  [checkpointCount |-> n, minBoostPct |-> lo, maxBoostPct |-> hi,
   ticketStrength |-> strength, durationMs |-> duration, crashPct |-> crash,
   minPeakDelayMs |-> 2000]

RideConfigs ==
  { RideConfig(8, 100000, 500000, 250000, 8000, 700000),
    RideConfig(12, 0, 1000000, 1000000, 10000, 200000),
    RideConfig(2, 100000, 500000, 0, 1000, 300000),
    RideConfig(8, 100000, 100000, 0, 0, 700000),
    RideConfig(8, 100000, 500000, 250000, 10000, 800000),
    RideConfig(8, 100000, 100000, 0, 10000, 800000),
    RideConfig(8, 100000, 500000, 1000000, 0, 200000),
    [RideConfig(7, 100000, 500000, 1000000, 8000, 900000)
       EXCEPT !.minPeakDelayMs = 5000] }

NoRideCall == [pc |-> 0, seed |-> <<>>, cfg |-> <<>>, cps |-> <<>>, floor |-> 0, at |-> 0]

NoRng == <<0, 0>>

NoApplication == [fn |-> "none", args |-> <<>>, returned |-> FALSE, result |-> 0]

InitAuth ==
  /\ replayCache = <<>>
  /\ accepted = {}
  /\ replayed = {}

InitRide ==
  /\ now = 0
  /\ applied = NoApplication
  /\ InitAuth
  /\ rng = NoRng
  /\ rideCall = NoRideCall
  /\ rideLog = <<>>

\* generateRide is entered: the generator is constructed from the seed and
\* the checkpoints are initialised.
RideBeginReusing(seed, cfg) ==
  /\ rideCall.pc = 0
  /\ Len(rideLog) < MaxRideCalls
  /\ rng' = IF rng = NoRng THEN rideRng(seed) ELSE rng
  /\ LET initial == initializeCheckpoints(Max2(3, cfg.checkpointCount),
                      cfg.minBoostPct, cfg.maxBoostPct, cfg.ticketStrength)
     IN  rideCall' = [pc |-> 1, seed |-> seed, cfg |-> cfg, cps |-> initial,
                      floor |-> initial[0].baseBoostValue, at |-> now]
  /\ UNCHANGED <<now, rideLog, svcVars, outerVars>>

RideBegin(seed, cfg) ==
  /\ rideCall.pc = 0
  /\ Len(rideLog) < MaxRideCalls
  /\ rng' = rideRng(seed)
  /\ LET initial == initializeCheckpoints(Max2(3, cfg.checkpointCount),
                      cfg.minBoostPct, cfg.maxBoostPct, cfg.ticketStrength)
     IN  rideCall' = [pc |-> 1, seed |-> seed, cfg |-> cfg, cps |-> initial,
                      floor |-> initial[0].baseBoostValue, at |-> now]
  /\ UNCHANGED <<now, rideLog, svcVars, outerVars>>

\* The turning points are drawn and the checkpoints filled.
RideSynthesize ==
  /\ rideCall.pc = 1
  /\ LET shape == ShapeOf(rideCall.cps, rng, rideCall.cfg)
     IN  /\ rideCall' = [rideCall EXCEPT !.pc = 2, !.cps = shape.cps]
         /\ rng' = LcgAfter(rng, shape.draws)
  /\ UNCHANGED <<now, rideLog, svcVars, outerVars>>

\* The next enforcement pass runs.
RidePassStep ==
  /\ rideCall.pc >= 2
  /\ rideCall.pc < 2 + PassCount
  /\ rideCall' = [rideCall EXCEPT
                    !.pc = @ + 1,
                    !.cps = RidePass(rideCall.pc - 1, @, rideCall.seed,
                                     rideCall.cfg, rideCall.floor)]
  /\ UNCHANGED <<now, rng, rideLog, svcVars, outerVars>>

\* generateRide returns.
RideReturn ==
  /\ rideCall.pc = 2 + PassCount
  /\ rideLog' = Append(rideLog, [seed |-> rideCall.seed, cfg |-> rideCall.cfg,
                                 at |-> rideCall.at, checkpoints |-> rideCall.cps])
  /\ rideCall' = NoRideCall
  /\ UNCHANGED <<now, rng, svcVars, outerVars>>

\* The wall clock advances.
Tick ==
  /\ now < MaxTicks
  /\ now' = now + 1
  /\ UNCHANGED <<rideVars, svcVars, outerVars>>

NextRide ==
  \/ \E seed \in RideSeeds, cfg \in RideConfigs : RideBegin(seed, cfg)
  \/ RideSynthesize
  \/ RidePassStep
  \/ RideReturn
  \/ Tick

\* ------------------------------------------------------------------------
\* The service.  The database holds one reward profile, the rewards, the
\* ride definitions (checkpoints per reward), the boost locks and the
\* settlements.  A request is a call record that moves from one database
\* operation of its handler to the next; the operations of concurrent
\* requests interleave.  There are a few request slots: a slot holds
\* a request in flight or the last request answered in it, and a new
\* request takes the first slot that has none in flight.  Reward ids are
\* 1, 2, ... in the order of granting; lock and settlement ids are
\* numbered in the order of insertion.
\* ------------------------------------------------------------------------

\* Milliseconds per tick of the clock.
TickMs == 4500

ClockMs == now * TickMs

\* config.ride.minDurationSeconds and maxDurationSeconds, in ms.
RideMinDurationMs == 500

RideMaxDurationMs == 10000

\* config.ride.minCrashSeconds, in ms.  The services read it; the
\* configuration module of the source tree does not define it.
RideMinCrashMs == 1000

\* minPeakDelaySeconds: 2 of optIn, in ms.
MinPeakDelayMs == 2000

\* The ids of the rewards that can be granted.
RewardIds == {1}

\* The request slots.
Slots == {1, 2}

Users == {1}

BetIds == {1, 2}

TicketIds == {1, 2}

Outcomes == {"WIN", "LOSS", "VOID", "CASHOUT"}

\* Winnings in ten-thousandths: 0 and 100.
WinningsValues == {0, 1000000}

\* The outcome and winnings of the settlement requests: a win with and
\* without winnings, and every other outcome with winnings.
SettleInputs ==
  {input \in [outcome : Outcomes, winnings : WinningsValues] :
     input.outcome = "WIN" \/ input.winnings > 0}

\* A null bet id or ticket snapshot.
None == 0

Selection(odds) == [odds |-> odds, eligible |-> TRUE]

\* The selections of the tickets that requests submit: six selections at
\* 2.0 and one at 1.1, and a single selection at 2.0.
TicketSelections(ticket) ==
  IF ticket = 1
    THEN <<Selection(2000000), Selection(2000000), Selection(2000000), Selection(2000000),
           Selection(2000000), Selection(2000000), Selection(1100000)>>
    ELSE <<Selection(2000000)>>

\* The profile version the rewards are granted under, as createProfile
\* accepts it.
InitialProfile ==
  [minSelections |-> 2, minCombinedOdds |-> 3000000, minSelectionOdds |-> 1200000,
   minBoostPct |-> 100000, maxBoostPct |-> 500000,
   maxBoostMinSelections |-> 8, maxBoostMinCombinedOdds |-> 0]

\* A field that an update request leaves out.
Absent == 0 - 1

\* The bodies of the profile update requests.
ProfileUpdates ==
  { [minBoostPct |-> 400000, maxBoostPct |-> Absent],
    [minBoostPct |-> Absent, maxBoostPct |-> 200000] }

\* generateSeed(rewardId, userId, profileVersionId) is a SHA-256 digest in
\* hex; the model gives reward 1 the seed "s1" and reward 2 the seed "s3".
generateSeed(rewardId) == <<115, 47 + 2 * rewardId>>

\* The argument of the boost model that the services build from a profile.
BoostConfigOf(prof) ==
  [minBoostPct |-> prof.minBoostPct, maxBoostPct |-> prof.maxBoostPct,
   maxBoostMinSelections |-> prof.maxBoostMinSelections,
   maxBoostMinCombinedOdds |-> prof.maxBoostMinCombinedOdds]

\* What the services compute from a ticket and a profile.
TicketEvaluation(qualifying, prof) ==
  [qualifyingCount |-> Len(qualifying),
   combinedOdds |-> calculateCombinedOdds(qualifying),
   ticketStrength |-> computeTicketStrength(Len(qualifying), calculateCombinedOdds(qualifying),
                                            prof.minSelections)]

EvaluateTicket(ticket, prof) ==
  TicketEvaluation(filterQualifyingSelections(TicketSelections(ticket), prof.minSelectionOdds), prof)

\* The eligibility checks shared by optIn and lockBoost.
EligibilityFailure(evaluation, prof) ==
  IF ~meetsMinSelectionCount(evaluation.qualifyingCount, prof.minSelections)
    THEN "MIN_SELECTIONS_NOT_MET"
  ELSE IF ~meetsCombinedOddsThreshold(evaluation.combinedOdds, prof.minCombinedOdds)
    THEN "MIN_COMBINED_ODDS_NOT_MET"
  ELSE "PASS"

\* A request: pc is the next step of its handler, 0 once it has answered.
\* seen records how many locks and settlements existed when the request
\* made its first read.
NewCall(kind, args, pc) ==
  [kind |-> kind, args |-> args, pc |-> pc, loc |-> <<>>, res |-> <<>>,
   seen |-> [locks |-> Cardinality(locks), settlements |-> Cardinality(settlements)]]

\* An empty slot.
NoCall == [kind |-> "none", args |-> <<>>, pc |-> 0, loc |-> <<>>, res |-> <<>>, seen |-> <<>>]

Answered(call, res) == [call EXCEPT !.pc = 0, !.res = res]

Failure(code) == [success |-> FALSE, code |-> code]

\* An exception that leaves the handler (a violated database constraint).
Thrown == Failure("INTERNAL_ERROR")

CanStart == \E i \in Slots : calls[i].pc = 0

FreeSlot == CHOOSE i \in Slots : calls[i].pc = 0 /\ \A j \in 1..(i - 1) : calls[j].pc # 0

\* The slots after the request in slot i has taken a step.  The answer of
\* a request stays in its slot until another request answers or a new
\* request takes the slot.
Latest(slots, i) ==
  IF slots[i].pc # 0 THEN slots
  ELSE [j \in DOMAIN slots |-> IF j # i /\ slots[j].pc = 0 THEN NoCall ELSE slots[j]]

Step(i, next) == calls' = Latest([calls EXCEPT ![i] = next], i)

\* The slots after a new request has taken the first free one.
Started(call) == Latest([calls EXCEPT ![FreeSlot] = call], FreeSlot)

IsAt(i, kind, pc) == calls[i].kind = kind /\ calls[i].pc = pc

InitService ==
  /\ profile = InitialProfile
  /\ rewards = <<>>
  /\ rideDefs = <<>>
  /\ locks = {}
  /\ settlements = {}
  /\ calls = [i \in Slots |-> NoCall]

\* grantReward.  The handler creates the row, then writes the seed and the
\* end time; no client can name the reward before the handler has answered
\* with its id, so the three writes are one step.
GrantReward(userId) ==
  /\ Len(rewards) + 1 \in RewardIds
  /\ rewards' = Append(rewards,
       [userId |-> userId, status |-> "GRANTED", startTime |-> ClockMs,
        endTime |-> ClockMs + deriveRideDurationSeconds(generateSeed(Len(rewards) + 1),
                                                        RideMinDurationMs, RideMaxDurationMs),
        betId |-> None, ticket |-> None])
  /\ rideDefs' = Append(rideDefs, <<>>)
  /\ UNCHANGED <<now, rideVars, outerVars, profile, locks, settlements, calls>>

\* A request as its handler leaves the first database read: answered with
\* the failure found there, or on its way.
StartedCall(call, failure) ==
  IF failure = "PASS" THEN call ELSE Answered(call, Failure(failure))

\* ---- optIn ----

\* The checks of optIn on the reward it has fetched.
OptInRewardFailureUnentered(rewardId, userId) ==
  IF rewardId \notin DOMAIN rewards THEN "REWARD_NOT_FOUND"
  ELSE IF rewards[rewardId].userId # userId THEN "REWARD_NOT_FOUND"
  ELSE IF rewards[rewardId].status = "USED" THEN "REWARD_ALREADY_USED"
  ELSE IF rewards[rewardId].status = "EXPIRED" THEN "REWARD_EXPIRED"
  ELSE "PASS"

OptInRewardFailure(rewardId, userId) ==
  IF rewardId \notin DOMAIN rewards THEN "REWARD_NOT_FOUND"
  ELSE IF rewards[rewardId].userId # userId THEN "REWARD_NOT_FOUND"
  ELSE IF rewards[rewardId].status = "ENTERED" THEN "ALREADY_OPTED_IN"
  ELSE IF rewards[rewardId].status = "USED" THEN "REWARD_ALREADY_USED"
  ELSE IF rewards[rewardId].status = "EXPIRED" THEN "REWARD_EXPIRED"
  ELSE "PASS"

\* optIn is called and fetches the reward.
StartOptIn(userId, rewardId, betId, ticket) ==
  /\ CanStart
  /\ calls' = Started(
       StartedCall(NewCall("optIn", [userId |-> userId, rewardId |-> rewardId,
                                     betId |-> betId, ticket |-> ticket], 2),
                   OptInRewardFailure(rewardId, userId)))
  /\ UNCHANGED <<now, rideVars, outerVars, profile, rewards, rideDefs, locks, settlements>>

\* The config that optIn passes to generateRide.
OptInRideConfig(derived, prof, ticketStrength, durationMs) ==
  [checkpointCount |-> derived.checkpointCount,
   minBoostPct |-> prof.minBoostPct, maxBoostPct |-> prof.maxBoostPct,
   ticketStrength |-> ticketStrength, durationMs |-> durationMs,
   crashPct |-> derived.crashPct, minPeakDelayMs |-> MinPeakDelayMs]

\* The ride that optIn generates and the times it reads from the clock.
OptInRide(seed, prof, evaluation, durationMs, clock) ==
  [checkpoints |-> generateRide(seed, OptInRideConfig(
                     deriveRideParams(seed, durationMs, RideMinCrashMs),
                     prof, evaluation.ticketStrength, durationMs)),
   crashPct |-> deriveCrashPct(seed, durationMs, RideMinCrashMs),
   startTime |-> clock, endTime |-> clock + durationMs]

OptInEvaluated(call, prof, evaluation, seed, clock) ==
  IF EligibilityFailure(evaluation, prof) # "PASS"
    THEN Answered(call, Failure(EligibilityFailure(evaluation, prof)))
    ELSE [call EXCEPT !.pc = 3,
                      !.loc = OptInRide(seed, prof, evaluation,
                                deriveRideDurationSeconds(seed, RideMinDurationMs, RideMaxDurationMs),
                                clock)]

\* optIn fetches the profile, checks the ticket, generates the ride and
\* reads the clock.
OptInProfile(i) ==
  /\ IsAt(i, "optIn", 2)
  /\ Step(i,
       OptInEvaluated(calls[i], profile, EvaluateTicket(calls[i].args.ticket, profile),
                      generateSeed(calls[i].args.rewardId), ClockMs))
  /\ UNCHANGED <<now, rideVars, outerVars, profile, rewards, rideDefs, locks, settlements>>

\* unique(reward_id, checkpoint_index) of ride_definitions.
CheckpointsUnchecked(rewardId) == FALSE

CheckpointsExist(rewardId) == Count(rideDefs[rewardId]) > 0

\* The rows of createMany as findByRewardId returns them.  The columns are
\* decimal(10, 6), which is the resolution of the model's values.
CheckpointRows(checkpoints) ==
  [i \in DOMAIN checkpoints |->
     [index |-> checkpoints[i].index,
      timeOffsetPct |-> checkpoints[i].timeOffsetPct,
      baseBoostValue |-> checkpoints[i].baseBoostValue]]

\* optIn inserts the checkpoints; the insert fails when the reward has some.
OptInPersist(i) ==
  /\ IsAt(i, "optIn", 3)
  /\ IF CheckpointsExist(calls[i].args.rewardId)
       THEN /\ Step(i, Answered(calls[i], Thrown))
            /\ UNCHANGED rideDefs
       ELSE /\ rideDefs' = [rideDefs EXCEPT ![calls[i].args.rewardId] =
                              CheckpointRows(calls[i].loc.checkpoints)]
            /\ Step(i, [calls[i] EXCEPT !.pc = 4])
  /\ UNCHANGED <<now, rideVars, outerVars, profile, rewards, locks, settlements>>

\* updateRideStart: the ride times, the bet and the ticket are bound.
OptInBind(i) ==
  /\ IsAt(i, "optIn", 4)
  /\ rewards' = [rewards EXCEPT ![calls[i].args.rewardId] =
       [@ EXCEPT !.startTime = calls[i].loc.startTime, !.endTime = calls[i].loc.endTime,
                 !.betId = calls[i].args.betId, !.ticket = calls[i].args.ticket]]
  /\ Step(i, [calls[i] EXCEPT !.pc = 5])
  /\ UNCHANGED <<now, rideVars, outerVars, profile, rideDefs, locks, settlements>>

\* updateStatus(rewardId, 'ENTERED'), and the answer.
OptInEnter(i) ==
  /\ IsAt(i, "optIn", 5)
  /\ rewards' = [rewards EXCEPT ![calls[i].args.rewardId].status = "ENTERED"]
  /\ Step(i, Answered(calls[i], [success |-> TRUE, code |-> "OK"]))
  /\ UNCHANGED <<now, rideVars, outerVars, profile, rideDefs, locks, settlements>>

\* ---- lockBoost ----

\* betBoostLockRepository.findByBetId: the rows with this bet id.
FindLockById(betId) == {l \in locks : l.id = betId}

FindLockByBetId(betId) == {l \in locks : l.betId = betId}

buildLockResponse(lock) ==
  [success |-> TRUE, code |-> "OK", lock_id |-> lock.id, bet_id |-> lock.betId,
   reward_id |-> lock.rewardId, locked_boost_pct |-> lock.lockedBoostPct]

\* The idempotency check: an existing lock is the answer.
LockStarted(call, existing) ==
  IF existing # {} THEN Answered(call, buildLockResponse(CHOOSE l \in existing : TRUE))
  ELSE call

\* lockBoost is called and looks for a lock of the bet.
StartLock(userId, rewardId, betId) ==
  /\ CanStart
  /\ calls' = Started(
       LockStarted(NewCall("lock", [userId |-> userId, rewardId |-> rewardId, betId |-> betId], 2),
                   FindLockByBetId(betId)))
  /\ UNCHANGED <<now, rideVars, outerVars, profile, rewards, rideDefs, locks, settlements>>

\* The reward is bound to this bet and carries a ticket snapshot.
BoundToAnyBet(reward, betId) ==
  reward.betId # None /\ reward.ticket # None

BoundTo(reward, betId) ==
  reward.betId # None /\ reward.betId = betId /\ reward.ticket # None

\* The checks of lockBoost on the reward it has fetched.
LockRewardFailure(rewardId, userId, betId) ==
  IF rewardId \notin DOMAIN rewards THEN "REWARD_NOT_FOUND"
  ELSE IF rewards[rewardId].userId # userId THEN "REWARD_NOT_FOUND"
  ELSE IF rewards[rewardId].status = "EXPIRED" THEN "REWARD_EXPIRED"
  ELSE IF rewards[rewardId].status = "USED" THEN "REWARD_ALREADY_USED"
  ELSE IF rewards[rewardId].status # "ENTERED" THEN "NOT_OPTED_IN"
  ELSE IF ~BoundTo(rewards[rewardId], betId) THEN "NOT_OPTED_IN"
  ELSE "PASS"

\* What lockBoost keeps of the reward: the elapsed fraction at this
\* reading of the clock and the crash fraction derived from the seed and
\* the length of the ride.
LockTimesFromEpoch(reward, seed, clock) ==
  [elapsedPct |-> calculateElapsedPct(reward.startTime, reward.endTime, clock),
   crashPct |-> deriveRideParams(seed, reward.endTime, RideMinCrashMs).crashPct,
   startTime |-> reward.startTime, endTime |-> reward.endTime, ticket |-> reward.ticket]

LockTimes(reward, seed, clock) ==
  [elapsedPct |-> calculateElapsedPct(reward.startTime, reward.endTime, clock),
   crashPct |-> deriveRideParams(seed, reward.endTime - reward.startTime, RideMinCrashMs).crashPct,
   startTime |-> reward.startTime, endTime |-> reward.endTime, ticket |-> reward.ticket]

LockRewardRead(call, failure, clock) ==
  IF failure # "PASS" THEN Answered(call, Failure(failure))
  ELSE [call EXCEPT !.pc = 3,
                    !.loc = LockTimes(rewards[call.args.rewardId],
                                      generateSeed(call.args.rewardId), clock)]

\* lockBoost fetches the reward, checks it and reads the clock.
LockReward(i) ==
  /\ IsAt(i, "lock", 2)
  /\ Step(i,
       LockRewardRead(calls[i], LockRewardFailure(calls[i].args.rewardId, calls[i].args.userId, calls[i].args.betId), ClockMs))
  /\ UNCHANGED <<now, rideVars, outerVars, profile, rewards, rideDefs, locks, settlements>>

LockEligibility(call, prof, evaluation) ==
  IF EligibilityFailure(evaluation, prof) # "PASS"
    THEN Answered(call, Failure(EligibilityFailure(evaluation, prof)))
    ELSE [call EXCEPT !.pc = 4, !.loc = @ @@ [prof |-> prof]]

\* lockBoost fetches the profile and checks the stored ticket against it.
LockProfile(i) ==
  /\ IsAt(i, "lock", 3)
  /\ Step(i,
       LockEligibility(calls[i], profile, EvaluateTicket(calls[i].loc.ticket, profile)))
  /\ UNCHANGED <<now, rideVars, outerVars, profile, rewards, rideDefs, locks, settlements>>

\* lockedBoostDetails.finalBoostPct of lockBoost.
LockedBoostPct(checkpoints, elapsedPct, evaluation, prof) ==
  calculateFinalBoostDetails(interpolateRideValue(checkpoints, elapsedPct),
                             evaluation.ticketStrength, evaluation.qualifyingCount,
                             evaluation.combinedOdds, FALSE, BoostConfigOf(prof)).finalBoostPct

\* elapsedPct >= crashPct.
RideCrashed(elapsedPct, crashPct) == elapsedPct >= crashPct

\* The ridePath of a request: buildEffectiveRidePath over the stored
\* checkpoints of the reward, sixty samples of its whole ride, and no
\* point when the reward has no checkpoints.  The service keeps of a path
\* the reward whose ride it shows.
RidePathOf(rewardId, checkpoints) ==
  IF checkpoints = <<>> THEN <<>> ELSE [rewardId |-> rewardId]

\* The failure of lockBoost for a ride that is over: error.details carries
\* ride_path.
RideOverFailure(code, ridePath) ==
  [success |-> FALSE, code |-> code, ride_path |-> ridePath]

\* The crash check on the elapsed fraction read earlier, then the end
\* check on a new reading of the clock.
LockDecision(call, lockedBoostPct, ridePath, clock) ==
  IF RideCrashed(call.loc.elapsedPct, call.loc.crashPct)
    THEN Answered(call, RideOverFailure("RIDE_CRASHED", ridePath))
  ELSE IF hasRideEnded(call.loc.startTime, call.loc.endTime, clock)
    THEN Answered(call, RideOverFailure("RIDE_ENDED", ridePath))
  ELSE [call EXCEPT !.pc = 5, !.loc = @ @@ [lockedBoostPct |-> lockedBoostPct]]

\* lockBoost fetches the checkpoints, computes the boost and decides.
LockEvaluate(i) ==
  /\ IsAt(i, "lock", 4)
  /\ Step(i,
       LockDecision(calls[i], LockedBoostPct(rideDefs[calls[i].args.rewardId], calls[i].loc.elapsedPct,
                                      EvaluateTicket(calls[i].loc.ticket, calls[i].loc.prof), calls[i].loc.prof),
                    RidePathOf(calls[i].args.rewardId, rideDefs[calls[i].args.rewardId]),
                    ClockMs))
  /\ UNCHANGED <<now, rideVars, outerVars, profile, rewards, rideDefs, locks, settlements>>

\* bet_id of bet_boost_locks is unique.
LockBetIdUnchecked(betId) == FALSE

LockBetIdTaken(betId) == \E l \in locks : l.betId = betId

\* The row that betBoostLockRepository.create inserts.
NewLock(id, call) ==
  [id |-> id, betId |-> call.args.betId, rewardId |-> call.args.rewardId,
   lockedBoostPct |-> call.loc.lockedBoostPct,
   snapshot |-> [minBoostPct |-> call.loc.prof.minBoostPct,
                 maxBoostPct |-> call.loc.prof.maxBoostPct,
                 elapsedPct |-> call.loc.elapsedPct, crashPct |-> call.loc.crashPct]]

\* lockBoost inserts the lock; the insert fails when the bet has one.
LockInsert(i) ==
  /\ IsAt(i, "lock", 5)
  /\ IF LockBetIdTaken(calls[i].args.betId)
       THEN /\ Step(i, Answered(calls[i], Thrown))
            /\ UNCHANGED locks
       ELSE /\ locks' = locks \cup {NewLock(Cardinality(locks) + 1, calls[i])}
            /\ Step(i,
                 [calls[i] EXCEPT !.pc = 6, !.loc = @ @@ [lockId |-> Cardinality(locks) + 1]])
  /\ UNCHANGED <<now, rideVars, outerVars, profile, rewards, rideDefs, settlements>>

\* updateStatus(rewardId, 'USED'), and the answer built from the lock.
LockMarkUsed(i) ==
  /\ IsAt(i, "lock", 6)
  /\ rewards' = [rewards EXCEPT ![calls[i].args.rewardId].status = "USED"]
  /\ Step(i,
       Answered(calls[i], buildLockResponse(CHOOSE l \in locks : l.id = calls[i].loc.lockId)))
  /\ UNCHANGED <<now, rideVars, outerVars, profile, rideDefs, locks, settlements>>

\* ---- getQuote ----

\* buildIneligibleResponse: a quote without a boost and without a path.
buildIneligibleResponse(reasonCode) ==
  [success |-> TRUE, eligible |-> FALSE, reason_code |-> reasonCode]

\* buildRideEndedResponse: the quote of a ride that is over carries
\* ride_path.
buildRideEndedResponse(reasonCode, ridePath) ==
  [success |-> TRUE, eligible |-> FALSE, reason_code |-> reasonCode,
   current_boost_pct |-> 0, ride_path |-> ridePath]

\* The answer of getQuote for a live ride.
EligibleResponse(currentBoostPct) ==
  [success |-> TRUE, eligible |-> TRUE, reason_code |-> "ELIGIBLE",
   current_boost_pct |-> currentBoostPct]

\* The checks of getQuote on the reward it has fetched.
QuoteRewardFailure(rewardId, userId) ==
  IF rewardId \notin DOMAIN rewards THEN "REWARD_NOT_FOUND"
  ELSE IF rewards[rewardId].userId # userId THEN "REWARD_NOT_FOUND"
  ELSE IF rewards[rewardId].status = "EXPIRED" THEN "REWARD_EXPIRED"
  ELSE IF rewards[rewardId].status = "USED" THEN "REWARD_ALREADY_USED"
  ELSE IF rewards[rewardId].status # "ENTERED" THEN "NOT_OPTED_IN"
  ELSE "PASS"

QuoteStarted(call, failure) ==
  IF failure # "PASS" THEN Answered(call, buildIneligibleResponse(failure))
  ELSE [call EXCEPT !.loc = [reward |-> rewards[call.args.rewardId]]]

\* getQuote is called, fetches the reward and checks it.
StartQuote(userId, rewardId, betId) ==
  /\ CanStart
  /\ calls' = Started(
       QuoteStarted(NewCall("quote", [userId |-> userId, rewardId |-> rewardId, betId |-> betId], 2),
                    QuoteRewardFailure(rewardId, userId)))
  /\ UNCHANGED <<now, rideVars, outerVars, profile, rewards, rideDefs, locks, settlements>>

\* The quote after the profile has been fetched: the bet and the ticket
\* of the reward are checked, then the elapsed fraction is read off the
\* clock and the crash fraction derived.
QuoteEligibility(call, prof, evaluation, clock) ==
  IF ~BoundTo(call.loc.reward, call.args.betId)
    THEN Answered(call, buildIneligibleResponse("NOT_OPTED_IN"))
  ELSE IF EligibilityFailure(evaluation, prof) # "PASS"
    THEN Answered(call, buildIneligibleResponse(EligibilityFailure(evaluation, prof)))
  ELSE [call EXCEPT !.pc = 3,
                    !.loc = LockTimes(call.loc.reward, generateSeed(call.args.rewardId), clock)
                              @@ [prof |-> prof]]

\* getQuote fetches the profile and checks the stored ticket against it.
QuoteProfile(i) ==
  /\ IsAt(i, "quote", 2)
  /\ Step(i,
       QuoteEligibility(calls[i], profile,
                        EvaluateTicket(calls[i].loc.reward.ticket, profile), ClockMs))
  /\ UNCHANGED <<now, rideVars, outerVars, profile, rewards, rideDefs, locks, settlements>>

\* The crash check on the elapsed fraction read earlier, then the end
\* check on a new reading of the clock.
QuoteDecisionOnEndOnly(call, currentBoostPct, ridePath, clock) ==
  IF hasRideEnded(call.loc.startTime, call.loc.endTime, clock)
    THEN Answered(call, buildRideEndedResponse("RIDE_ENDED", ridePath))
  ELSE Answered(call, EligibleResponse(currentBoostPct))

QuoteDecision(call, currentBoostPct, ridePath, clock) ==
  IF RideCrashed(call.loc.elapsedPct, call.loc.crashPct)
    THEN Answered(call, buildRideEndedResponse("RIDE_CRASHED", ridePath))
  ELSE IF hasRideEnded(call.loc.startTime, call.loc.endTime, clock)
    THEN Answered(call, buildRideEndedResponse("RIDE_ENDED", ridePath))
  ELSE Answered(call, EligibleResponse(currentBoostPct))

\* getQuote fetches the checkpoints, computes the boost and the path and
\* answers.
QuoteEvaluate(i) ==
  /\ IsAt(i, "quote", 3)
  /\ Step(i,
       QuoteDecision(calls[i], LockedBoostPct(rideDefs[calls[i].args.rewardId], calls[i].loc.elapsedPct,
                                       EvaluateTicket(calls[i].loc.ticket, calls[i].loc.prof), calls[i].loc.prof),
                     RidePathOf(calls[i].args.rewardId, rideDefs[calls[i].args.rewardId]),
                     ClockMs))
  /\ UNCHANGED <<now, rideVars, outerVars, profile, rewards, rideDefs, locks, settlements>>

\* ---- settleBet ----

\* settlementRepository.findByBetId: the rows with this bet id.
FindSettlementByBetId(betId) == {t \in settlements : t.betId = betId}

\* locked_boost_pct of a settlement answer: lock?.lockedBoostPct ?? 0.
LockedPctOf(found) ==
  IF found = {} THEN 0 ELSE (CHOOSE l \in found : TRUE).lockedBoostPct

SettlementResponse(settlement, lockedBoostPct) ==
  [success |-> TRUE, code |-> "OK", settlement_id |-> settlement.id,
   bet_id |-> settlement.betId, outcome |-> settlement.outcome,
   winnings |-> settlement.winnings, bonus_amount |-> settlement.bonusAmount,
   locked_boost_pct |-> lockedBoostPct]

\* The idempotency check.  The handler reads the lock of the bet after
\* the settlement; a settlement is only ever created for a bet that has a
\* lock and locks are never changed, so the two reads are one step.
SettleStarted(call, existing, lockedBoostPct) ==
  IF existing # {}
    THEN Answered(call, SettlementResponse(CHOOSE t \in existing : TRUE, lockedBoostPct))
    ELSE call

\* settleBet is called and looks for a settlement of the bet.
StartSettle(betId, outcome, winnings) ==
  /\ CanStart
  /\ calls' = Started(
       SettleStarted(NewCall("settle", [betId |-> betId, outcome |-> outcome,
                                        winnings |-> winnings], 2),
                     FindSettlementByBetId(betId), LockedPctOf(FindLockByBetId(betId))))
  /\ UNCHANGED <<now, rideVars, outerVars, profile, rewards, rideDefs, locks, settlements>>

\* The bonus of settleBet.
BonusAlways(outcome, winnings, lockedBoostPct) ==
  calculateBonusAmount(winnings, lockedBoostPct)

SettlementBonus(outcome, winnings, lockedBoostPct) ==
  IF outcome = "WIN" /\ winnings > 0 THEN calculateBonusAmount(winnings, lockedBoostPct) ELSE 0

SettleWithLock(call, found) ==
  IF found = {} THEN Answered(call, Failure("LOCK_NOT_FOUND"))
  ELSE [call EXCEPT !.pc = 3,
                    !.loc = [lockedBoostPct |-> LockedPctOf(found),
                             bonusAmount |-> SettlementBonus(call.args.outcome, call.args.winnings,
                                                             LockedPctOf(found))]]

\* settleBet fetches the lock of the bet and computes the bonus.
SettleLock(i) ==
  /\ IsAt(i, "settle", 2)
  /\ Step(i, SettleWithLock(calls[i], FindLockByBetId(calls[i].args.betId)))
  /\ UNCHANGED <<now, rideVars, outerVars, profile, rewards, rideDefs, locks, settlements>>

\* bet_id of settlement_records is unique.
SettlementBetIdUnchecked(betId) == FALSE

SettlementBetIdTaken(betId) == \E t \in settlements : t.betId = betId

\* The row that settlementRepository.create inserts; winnings and
\* bonus_amount are decimal(14, 4), the resolution of the model's amounts.
NewSettlement(id, call) ==
  [id |-> id, betId |-> call.args.betId, outcome |-> call.args.outcome,
   winnings |-> call.args.winnings, bonusAmount |-> call.loc.bonusAmount]

\* settleBet inserts the settlement and answers; the insert fails when the
\* bet has one.
SettleCreate(i) ==
  /\ IsAt(i, "settle", 3)
  /\ IF SettlementBetIdTaken(calls[i].args.betId)
       THEN /\ Step(i, Answered(calls[i], Thrown))
            /\ UNCHANGED settlements
       ELSE /\ settlements' = settlements \cup {NewSettlement(Cardinality(settlements) + 1, calls[i])}
            /\ Step(i,
                 Answered(calls[i], SettlementResponse(NewSettlement(Cardinality(settlements) + 1, calls[i]),
                                                calls[i].loc.lockedBoostPct)))
  /\ UNCHANGED <<now, rideVars, outerVars, profile, rewards, rideDefs, locks>>

\* ---- updateProfile ----

\* input.field ?? existing.field.
OrExisting(given, existing) == IF given = Absent THEN existing ELSE given

\* The check of updateProfile on the profile it has fetched.
UpdateFailure(input, existing) ==
  IF OrExisting(input.minBoostPct, existing.minBoostPct)
       > OrExisting(input.maxBoostPct, existing.maxBoostPct)
    THEN "INVALID_CONFIGURATION"
    ELSE "PASS"

\* updateProfile is called, fetches the profile and validates the input.
StartUpdate(input) ==
  /\ CanStart
  /\ calls' = Started( StartedCall(NewCall("update", input, 2), UpdateFailure(input, profile)))
  /\ UNCHANGED <<now, rideVars, outerVars, profile, rewards, rideDefs, locks, settlements>>

\* rewardProfileRepository.update writes the fields that the input gives.
UpdateWrite(i) ==
  /\ IsAt(i, "update", 2)
  /\ profile' = [profile EXCEPT
                   !.minBoostPct = OrExisting(calls[i].args.minBoostPct, @),
                   !.maxBoostPct = OrExisting(calls[i].args.maxBoostPct, @)]
  /\ Step(i, Answered(calls[i], [success |-> TRUE, code |-> "OK"]))
  /\ UNCHANGED <<now, rideVars, outerVars, rewards, rideDefs, locks, settlements>>

\* ---- expiry ----

IsExpirable(reward, clock) == reward.status = "ENTERED" /\ reward.endTime <= clock

\* markExpired: every ENTERED reward whose end time has passed becomes
\* EXPIRED, in one UPDATE statement.
ExpireRewards ==
  /\ \E r \in DOMAIN rewards : IsExpirable(rewards[r], ClockMs)
  /\ rewards' = [r \in DOMAIN rewards |->
                   IF IsExpirable(rewards[r], ClockMs)
                     THEN [rewards[r] EXCEPT !.status = "EXPIRED"]
                     ELSE rewards[r]]
  /\ UNCHANGED <<now, rideVars, outerVars, profile, rideDefs, locks, settlements, calls>>

Next ==
  \/ \E userId \in Users : GrantReward(userId)
  \/ \E userId \in Users, rewardId \in RewardIds, betId \in BetIds, ticket \in TicketIds :
       StartOptIn(userId, rewardId, betId, ticket)
  \/ \E i \in Slots : OptInProfile(i)
  \/ \E i \in Slots : OptInPersist(i)
  \/ \E i \in Slots : OptInBind(i)
  \/ \E i \in Slots : OptInEnter(i)
  \/ \E userId \in Users, rewardId \in RewardIds, betId \in BetIds :
       StartLock(userId, rewardId, betId)
  \/ \E i \in Slots : LockReward(i)
  \/ \E i \in Slots : LockProfile(i)
  \/ \E i \in Slots : LockEvaluate(i)
  \/ \E i \in Slots : LockInsert(i)
  \/ \E i \in Slots : LockMarkUsed(i)
  \/ \E betId \in BetIds, input \in SettleInputs :
       StartSettle(betId, input.outcome, input.winnings)
  \/ \E i \in Slots : SettleLock(i)
  \/ \E i \in Slots : SettleCreate(i)
  \/ ExpireRewards
  \/ Tick

\* The service as a bettor watches a ride: opt-in, quote and lock
\* requests against the clock.
NextQuote ==
  \/ \E userId \in Users : GrantReward(userId)
  \/ \E userId \in Users, rewardId \in RewardIds, betId \in BetIds, ticket \in TicketIds :
       StartOptIn(userId, rewardId, betId, ticket)
  \/ \E i \in Slots : OptInProfile(i)
  \/ \E i \in Slots : OptInPersist(i)
  \/ \E i \in Slots : OptInBind(i)
  \/ \E i \in Slots : OptInEnter(i)
  \/ \E userId \in Users, rewardId \in RewardIds, betId \in BetIds :
       StartQuote(userId, rewardId, betId)
  \/ \E i \in Slots : QuoteProfile(i)
  \/ \E i \in Slots : QuoteEvaluate(i)
  \/ \E userId \in Users, rewardId \in RewardIds, betId \in BetIds :
       StartLock(userId, rewardId, betId)
  \/ \E i \in Slots : LockReward(i)
  \/ \E i \in Slots : LockProfile(i)
  \/ \E i \in Slots : LockEvaluate(i)
  \/ \E i \in Slots : LockInsert(i)
  \/ \E i \in Slots : LockMarkUsed(i)
  \/ Tick

\* Who may call lockBoost and the rewards a call may name: the owner of
\* reward 1 and a stranger, reward 1 and the id of another reward.
LockCallers == Users \cup {2}

LockRewardIds == RewardIds \cup {2}

\* The service as anybody calls lockBoost with the bet of a reward.
NextDisclosure ==
  \/ \E userId \in Users : GrantReward(userId)
  \/ \E userId \in Users, rewardId \in RewardIds, betId \in BetIds, ticket \in TicketIds :
       StartOptIn(userId, rewardId, betId, ticket)
  \/ \E i \in Slots : OptInProfile(i)
  \/ \E i \in Slots : OptInPersist(i)
  \/ \E i \in Slots : OptInBind(i)
  \/ \E i \in Slots : OptInEnter(i)
  \/ \E userId \in LockCallers, rewardId \in LockRewardIds, betId \in BetIds :
       StartLock(userId, rewardId, betId)
  \/ \E i \in Slots : LockReward(i)
  \/ \E i \in Slots : LockProfile(i)
  \/ \E i \in Slots : LockEvaluate(i)
  \/ \E i \in Slots : LockInsert(i)
  \/ \E i \in Slots : LockMarkUsed(i)
  \/ Tick

\* The service while an operator edits the profile: opt-in and lock
\* requests run concurrently with profile updates.
NextProfile ==
  \/ \E userId \in Users : GrantReward(userId)
  \/ \E userId \in Users, rewardId \in RewardIds, betId \in BetIds, ticket \in TicketIds :
       StartOptIn(userId, rewardId, betId, ticket)
  \/ \E i \in Slots : OptInProfile(i)
  \/ \E i \in Slots : OptInPersist(i)
  \/ \E i \in Slots : OptInBind(i)
  \/ \E i \in Slots : OptInEnter(i)
  \/ \E userId \in Users, rewardId \in RewardIds, betId \in BetIds :
       StartLock(userId, rewardId, betId)
  \/ \E i \in Slots : LockReward(i)
  \/ \E i \in Slots : LockProfile(i)
  \/ \E i \in Slots : LockEvaluate(i)
  \/ \E i \in Slots : LockInsert(i)
  \/ \E i \in Slots : LockMarkUsed(i)
  \/ \E input \in ProfileUpdates : StartUpdate(input)
  \/ \E i \in Slots : UpdateWrite(i)
  \/ Tick


\* ------------------------------------------------------------------------
\* The functions of the computations modules applied on their own: the
\* arguments are drawn at the start and the function is applied to them.
\* ------------------------------------------------------------------------

Application(fn, args) == [fn |-> fn, args |-> args, returned |-> FALSE, result |-> 0]

Returned(result) == [applied EXCEPT !.returned = TRUE, !.result = result]

IsApplied(fn) == applied.fn = fn /\ ~applied.returned

HasReturned(fn) == applied.fn = fn /\ applied.returned

\* FinalBoostConfig values: the caps of a profile with a selection target,
\* with no target, with both targets, with equal caps and with min above max.
FinalBoostConfigs ==
  { [minBoostPct |-> 100000, maxBoostPct |-> 500000,
     maxBoostMinSelections |-> 8, maxBoostMinCombinedOdds |-> 0],
    [minBoostPct |-> 100000, maxBoostPct |-> 500000,
     maxBoostMinSelections |-> 0, maxBoostMinCombinedOdds |-> 0],
    [minBoostPct |-> 100000, maxBoostPct |-> 500000,
     maxBoostMinSelections |-> 8, maxBoostMinCombinedOdds |-> 3000000],
    [minBoostPct |-> 300000, maxBoostPct |-> 300000,
     maxBoostMinSelections |-> 8, maxBoostMinCombinedOdds |-> 0],
    [minBoostPct |-> 400000, maxBoostPct |-> 200000,
     maxBoostMinSelections |-> 8, maxBoostMinCombinedOdds |-> 0] }

\* FinalBoostInput values: ride values below, inside and above the caps.
FinalBoostInputs ==
  [rideValue : {0 - 200000, 0, 50000, 300000, 500000, 2000000},
   ticketStrength : {0, 500000, MICRO},
   qualifyingSelections : {0, 6, 8, 10},
   combinedOdds : {3000000, 64000000},
   hasRideEnded : BOOLEAN,
   config : FinalBoostConfigs]

ApplyFinalBoostDetails ==
  /\ IsApplied("calculateFinalBoostDetails")
  /\ applied' = Returned(calculateFinalBoostDetails(
                   applied.args.rideValue, applied.args.ticketStrength,
                   applied.args.qualifyingSelections, applied.args.combinedOdds,
                   applied.args.hasRideEnded, applied.args.config))
  /\ UNCHANGED <<now, rideVars, svcVars, authVars>>

\* Qualifying counts up to past the selection bonus cap, combined odds from
\* below 1 to above the base of the logarithm, and two minimum counts.
StrengthCounts == 1..13

StrengthOdds ==
  {500000, MICRO, 1200000, 1500000, 3000000, 10000000, 64000000, 300000000, 1000000000}

TicketStrengthInputs ==
  [qualifyingCount : StrengthCounts, combinedOdds : StrengthOdds, minSelections : {2, 3}]

ApplyTicketStrength ==
  /\ IsApplied("computeTicketStrength")
  /\ applied' = Returned(computeTicketStrength(
                   applied.args.qualifyingCount, applied.args.combinedOdds,
                   applied.args.minSelections))
  /\ UNCHANGED <<now, rideVars, svcVars, authVars>>

\* Start, end and current times in ms: intervals of positive, zero and
\* negative length, read before, inside and after them.
ElapsedInputs ==
  [startTime : {0, 4500, 9000}, endTime : {0, 4500, 9000, 10000},
   currentTime : {0, 2000, 4500, 9000, 13500}]

\* calculateElapsedPct and hasRideEnded on the same arguments.
ApplyElapsed ==
  /\ IsApplied("calculateElapsedPct")
  /\ applied' = Returned(
       [elapsedPct |-> calculateElapsedPct(applied.args.startTime, applied.args.endTime,
                                           applied.args.currentTime),
        hasRideEnded |-> hasRideEnded(applied.args.startTime, applied.args.endTime,
                                      applied.args.currentTime)])
  /\ UNCHANGED <<now, rideVars, svcVars, authVars>>

\* The checkpoints of a stored ride, and a reward without checkpoints.
PathCheckpoints ==
  { generateRide(<<115, 49>>, RideConfig(8, 100000, 500000, 250000, 8000, 700000)),
    <<>> }

\* Sample counts below the least count, even and odd; crash fractions that
\* fall on a sample and between samples; a weak and a strong ticket.
PathInputs ==
  [checkpoints : PathCheckpoints, sampleCount : {1, 2, 5, 6},
   crashPct : {250000, 600000, 990000}, ticketStrength : {0, MICRO},
   config : {c \in FinalBoostConfigs : c.maxBoostMinCombinedOdds = 0},
   qualifyingSelections : {6, 8}, combinedOdds : {3000000}]

ApplyRidePath ==
  /\ IsApplied("buildEffectiveRidePath")
  /\ applied' = Returned(buildEffectiveRidePath(
                   applied.args.checkpoints, applied.args.sampleCount,
                   applied.args.crashPct, applied.args.ticketStrength, applied.args.config,
                   applied.args.qualifyingSelections, applied.args.combinedOdds))
  /\ UNCHANGED <<now, rideVars, svcVars, authVars>>

\* Rides of the least, a short, the usual least and the greatest number of
\* checkpoints, with crash fractions from the lower clamp to the upper one,
\* before, on and after the second checkpoint.
PreCrashInputs ==
  [checkpointCount : {3, 6, 8, 18},
   crashPct : {10000, 100000, 142857, 200000, 500000, 709800, 990000}]

\* getPreCrashLastCheckpointIndex as generateRide calls it, on the
\* checkpoints that initializeCheckpoints has laid out.
ApplyPreCrashIndex ==
  /\ IsApplied("getPreCrashLastCheckpointIndex")
  /\ applied' = Returned(getPreCrashLastCheckpointIndex(
                   initializeCheckpoints(applied.args.checkpointCount, 100000, 500000, 0),
                   EffectiveCrashPct(applied.args.crashPct)))
  /\ UNCHANGED <<now, rideVars, svcVars, authVars>>

\* Seeds "s1" and "s5", the seed "awmgopm", and a seed of 64 hexadecimal
\* digits as generateSeed returns them (fifty-six zeros, then "24c8d5ea").
HexSeed ==
  [i \in 1..56 |-> 48] \o <<50, 52, 99, 56, 100, 53, 101, 97>>

SeedInputs ==
  [seed : {<<115, 49>>, <<115, 53>>, <<97, 119, 109, 103, 111, 112, 109>>, HexSeed}]

\* The generator that each random decision of one seed constructs.
DecisionGenerators(seed) ==
  [duration |-> durationRng(seed), crash |-> crashRng(seed), ride |-> rideRng(seed),
   startBias |-> startBiasRng(seed), peakDelay |-> peakDelayPromoteRng(seed)]

ApplySeededRandom ==
  /\ IsApplied("SeededRandom")
  /\ applied' = Returned(DecisionGenerators(applied.args.seed))
  /\ UNCHANGED <<now, rideVars, svcVars, authVars>>

Applications ==
  {Application("calculateFinalBoostDetails", input) : input \in FinalBoostInputs}
    \cup {Application("SeededRandom", input) : input \in SeedInputs}
    \cup {Application("getPreCrashLastCheckpointIndex", input) : input \in PreCrashInputs}
    \cup {Application("buildEffectiveRidePath", input) : input \in PathInputs}
    \cup {Application("calculateElapsedPct", input) : input \in ElapsedInputs}
    \cup {Application("computeTicketStrength", input) : input \in TicketStrengthInputs}

InitComputations ==
  /\ now = 0
  /\ rng = NoRng
  /\ rideCall = NoRideCall
  /\ rideLog = <<>>
  /\ InitService
  /\ InitAuth
  /\ applied \in Applications

NextComputations ==
  \/ ApplyRidePath
  \/ ApplyFinalBoostDetails
  \/ ApplyTicketStrength
  \/ ApplyElapsed
  \/ ApplyPreCrashIndex
  \/ ApplySeededRandom

\* ------------------------------------------------------------------------
\* Request authentication (authMiddleware).  A signed request carries a
\* timestamp and a signature over the timestamp, method, path and body;
\* the model writes a signature as the timestamp and body it signs and the
\* key it was made with.  now counts ticks of AuthTickMs here.
\* ------------------------------------------------------------------------

\* Milliseconds per tick of the clock of the middleware.
AuthTickMs == 150000

MaxAuthTicks == 3

\* config.api.hmacMaxSkewMs (HMAC_MAX_SKEW_MS, default 300000).
HmacMaxSkewMs == 300000

\* config.api.hmacReplayCacheSize (HMAC_REPLAY_CACHE_SIZE, default 10000),
\* scaled down.
HmacReplayCacheSize == 2

AuthClockMs == now * AuthTickMs

RequestTimes == {k * AuthTickMs : k \in 0..MaxAuthTicks}

RequestBodies == {1, 2}

\* The signatures a client can present: made with the secret, or forged.
Signatures == [timestamp : RequestTimes, body : RequestBodies, key : {"secret", "other"}]

\* createHmac('sha256', config.api.hmacSecret) over the request.
ExpectedSignature(timestamp, body) == [timestamp |-> timestamp, body |-> body, key |-> "secret"]

\* The first loop of pruneReplayCache: entries older than the skew go.
PruneAged(cache, nowMs) ==
  SelectSeq(cache, LAMBDA entry : ~(nowMs - entry.timestamp > HmacMaxSkewMs))

\* The entry that the sort by timestamp puts first: the earliest timestamp,
\* and among equal ones the entry inserted first.
OldestIndex(cache) ==
  CHOOSE i \in 1..Len(cache) :
    \A j \in 1..Len(cache) :
      \/ cache[i].timestamp < cache[j].timestamp
      \/ (cache[i].timestamp = cache[j].timestamp /\ i <= j)

RemoveAt(cache, i) == SubSeq(cache, 1, i - 1) \o SubSeq(cache, i + 1, Len(cache))

\* The second loop of pruneReplayCache: the oldest entries go while the
\* cache holds more than maxEntries.
RECURSIVE EvictOverflow(_, _)
EvictOverflow(cache, maxEntries) ==
  IF Len(cache) <= maxEntries THEN cache
  ELSE EvictOverflow(RemoveAt(cache, OldestIndex(cache)), maxEntries)

pruneReplayCache(cache, nowMs) == EvictOverflow(PruneAged(cache, nowMs), HmacReplayCacheSize)

InCache(cache, signature) == \E i \in 1..Len(cache) : cache[i].signature = signature

\* Whether the checks of validateHmacSignature before the replay cache pass.
SignatureMatches(timestamp, body, signature, nowMs) ==
  /\ ~(Abs(nowMs - timestamp) > HmacMaxSkewMs)
  /\ signature = ExpectedSignature(timestamp, body)

\* validateHmacSignature, for a request whose X-Timestamp is the timestamp
\* the signature was made for: the result and the cache it leaves.
validateHmacSignature(timestamp, body, signature, cache, nowMs) ==
  IF ~SignatureMatches(timestamp, body, signature, nowMs)
    THEN [valid |-> FALSE, cache |-> cache]
  ELSE IF InCache(pruneReplayCache(cache, nowMs), signature)
    THEN [valid |-> FALSE, cache |-> pruneReplayCache(cache, nowMs)]
  ELSE [valid |-> TRUE,
        cache |-> Append(pruneReplayCache(cache, nowMs),
                         [signature |-> signature, timestamp |-> timestamp])]

\* A request arrives with the X-Signature and X-Timestamp headers.
PresentSigned(signature, validation) ==
  /\ replayCache' = validation.cache
  /\ accepted' = IF validation.valid THEN accepted \cup {signature} ELSE accepted
  /\ replayed' = IF validation.valid /\ signature \in accepted
                  THEN replayed \cup {signature} ELSE replayed
  /\ UNCHANGED <<now, rideVars, svcVars, applied>>

AuthRequest(signature) ==
  PresentSigned(signature,
                validateHmacSignature(signature.timestamp, signature.body, signature,
                                      replayCache, AuthClockMs))

\* The clock of the middleware advances.
AuthTick ==
  /\ now < MaxAuthTicks
  /\ now' = now + 1
  /\ UNCHANGED <<rideVars, svcVars, outerVars>>

NextAuth ==
  \/ \E signature \in Signatures : AuthRequest(signature)
  \/ AuthTick

Init == InitRide /\ InitService

SpecRide == Init /\ [][NextRide]_vars

Spec == Init /\ [][Next]_vars

SpecProfile == Init /\ [][NextProfile]_vars

SpecQuote == Init /\ [][NextQuote]_vars

SpecDisclosure == Init /\ [][NextDisclosure]_vars

SpecComputations == InitComputations /\ [][NextComputations]_vars

SpecAuth == Init /\ [][NextAuth]_vars

\* ------------------------------------------------------------------------
\* Properties of ride generation
\* ------------------------------------------------------------------------

\* C9: generateRide is deterministic.  Whenever a call returns, its
\* checkpoint sequence is the one the function yields for that seed and
\* config when run on its own, and it equals the sequence every earlier call
\* with the same seed and config returned: the order of calls, the clock and
\* the generator state left behind by earlier calls have no influence.
C9_Deterministic ==
  [][Len(rideLog') > Len(rideLog) =>
       LET last == rideLog'[Len(rideLog')]
       IN  /\ last.checkpoints = generateRide(last.seed, last.cfg)
           /\ \A i \in 1..Len(rideLog) :
                (rideLog[i].seed = last.seed /\ rideLog[i].cfg = last.cfg)
                  => rideLog[i].checkpoints = last.checkpoints]_vars

\* Two calls with equal arguments have returned, made at different clock
\* readings, on a boost range where the draws shape the curve; the second
\* call found the generator state of the first.
C9_Witness ==
  /\ Len(rideLog) = 2
  /\ rideLog[1].seed = rideLog[2].seed
  /\ rideLog[1].cfg = rideLog[2].cfg
  /\ rideLog[1].at # rideLog[2].at
  /\ rideLog[1].cfg.maxBoostPct > rideLog[1].cfg.minBoostPct

\* The checkpoints of a ride that lie before the crash point.
PreCrashIndexes(ride) ==
  {i \in DOMAIN ride.checkpoints :
     ride.checkpoints[i].timeOffsetPct < EffectiveCrashPct(ride.cfg.crashPct)}

PreCrashMax(ride) ==
  SetMax({ride.checkpoints[i].baseBoostValue : i \in PreCrashIndexes(ride)})

\* C10: in every returned ride exactly one checkpoint before the crash
\* point attains the pre-crash maximum value.
C10_UniqueMaximum ==
  \A n \in 1..Len(rideLog) :
    Cardinality({i \in PreCrashIndexes(rideLog[n]) :
                   rideLog[n].checkpoints[i].baseBoostValue = PreCrashMax(rideLog[n])}) = 1

\* minPeakDelaySeconds / durationSeconds of a ride with a duration.
MinPeakDelayPct(ride) == DivMicro(ride.cfg.minPeakDelayMs, ride.cfg.durationMs)

\* The earliest checkpoint that attains the pre-crash maximum.
EarliestPreCrashMaximum(ride) ==
  SetMin({i \in PreCrashIndexes(ride) :
            ride.checkpoints[i].baseBoostValue = PreCrashMax(ride)})

\* The rides the peak delay can be kept in: they have a duration and a
\* checkpoint before the crash point that lies at or after the delay.
PeakDelayRides ==
  {n \in 1..Len(rideLog) :
     /\ rideLog[n].cfg.durationMs > 0
     /\ \E i \in PreCrashIndexes(rideLog[n]) :
          rideLog[n].checkpoints[i].timeOffsetPct >= MinPeakDelayPct(rideLog[n])}

\* C11: peak delay.  In every returned ride that has a duration and a
\* pre-crash checkpoint at or after minPeakDelaySeconds / durationSeconds, the
\* earliest checkpoint attaining the pre-crash maximum has a timeFraction of
\* at least minPeakDelaySeconds / durationSeconds (0.2 for a duration of 10
\* seconds, a crash fraction of 0.8 and a delay of 2 seconds).
C11_PeakDelay ==
  \A n \in PeakDelayRides :
    rideLog[n].checkpoints[EarliestPreCrashMaximum(rideLog[n])].timeOffsetPct
      >= MinPeakDelayPct(rideLog[n])

\* C12: bounds.  In every returned ride of a config with
\* minBoostPct <= maxBoostPct each checkpoint before the crash point has a
\* value within [minBoostPct, maxBoostPct].
C12_Bounds ==
  \A n \in 1..Len(rideLog) :
    rideLog[n].cfg.minBoostPct <= rideLog[n].cfg.maxBoostPct
      => \A i \in PreCrashIndexes(rideLog[n]) :
           /\ rideLog[n].checkpoints[i].baseBoostValue >= rideLog[n].cfg.minBoostPct
           /\ rideLog[n].checkpoints[i].baseBoostValue <= rideLog[n].cfg.maxBoostPct

\* C15: boundary shape.  The checkpoints of every returned ride start at
\* timeFraction 0 and end at timeFraction 1, and the value of the last
\* checkpoint is 0.
C15_BoundaryShape ==
  \A n \in 1..Len(rideLog) :
    LET cps == rideLog[n].checkpoints
    IN  /\ cps[0].timeOffsetPct = 0
        /\ cps[Count(cps) - 1].timeOffsetPct = MICRO
        /\ cps[Count(cps) - 1].baseBoostValue = 0

\* A ride was returned whose checkpoint before the last one is above zero,
\* for a config that asked for fewer checkpoints than the least count.
C15_Witness ==
  \E n \in 1..Len(rideLog) :
    /\ rideLog[n].cfg.checkpointCount < 3
    /\ Count(rideLog[n].checkpoints) = 3
    /\ rideLog[n].checkpoints[1].baseBoostValue > 0

\* The starting floor of a ride: the value that initializeCheckpoints gives
\* the checkpoints before the last one.
StartingFloor(ride) ==
  deriveStartBoostValue(ride.cfg.minBoostPct, ride.cfg.maxBoostPct, ride.cfg.ticketStrength)

\* C27: pre-crash floor.  In every returned ride no checkpoint before the
\* crash point has a value below the starting floor.
C27_PreCrashFloor ==
  \A n \in 1..Len(rideLog) :
    \A i \in PreCrashIndexes(rideLog[n]) :
      rideLog[n].checkpoints[i].baseBoostValue >= StartingFloor(rideLog[n])

\* The rounding threshold of enforceNoFlatSegmentsBeforeCrash.
FlatThreshold(ride) ==
  Max2(RoundDiv(Max2(ride.cfg.maxBoostPct - ride.cfg.minBoostPct, 0) * 5, 10000), 1)

\* The adjacent pairs of checkpoints before the crash point.
PreCrashPairs(ride) ==
  {i \in PreCrashIndexes(ride) : i >= 1 /\ (i - 1) \in PreCrashIndexes(ride)}

\* C28: no flat segments.  In every returned ride no two adjacent
\* checkpoints before the crash point have values within the rounding
\* threshold of each other.
C28_NoFlatSegments ==
  \A n \in 1..Len(rideLog) :
    \A i \in PreCrashPairs(rideLog[n]) :
      AbsDiffExceeds(rideLog[n].checkpoints[i].baseBoostValue,
                     rideLog[n].checkpoints[i - 1].baseBoostValue,
                     FlatThreshold(rideLog[n]))

\* ------------------------------------------------------------------------
\* Properties of the computations
\* ------------------------------------------------------------------------

\* C13: boost clamp laws.  calculateFinalBoostDetails returns finalBoostPct 0
\* with both clamp flags false whenever hasRideEnded is true, whatever the
\* other inputs are, and otherwise a finalBoostPct inside the window
\* [minBoost, effectiveMaxBoost] that the same result reports.
C13_BoostClampLaws ==
  HasReturned("calculateFinalBoostDetails") =>
    IF applied.args.hasRideEnded
    THEN /\ applied.result.finalBoostPct = 0
         /\ ~applied.result.isClampedToMax
         /\ ~applied.result.isClampedToMin
    ELSE /\ applied.result.finalBoostPct >= applied.result.minBoost
         /\ applied.result.finalBoostPct <= applied.result.effectiveMaxBoost

\* The function has returned for a ride in progress whose raw boost lay
\* above the window, on a ticket below the selection target.
C13_Witness ==
  /\ HasReturned("calculateFinalBoostDetails")
  /\ ~applied.args.hasRideEnded
  /\ applied.result.isClampedToMax
  /\ applied.result.effectiveMaxBoost < applied.args.config.maxBoostPct
  /\ applied.result.minBoost < applied.result.effectiveMaxBoost

\* The applications of computeTicketStrength to a ticket that meets the
\* minimum count and has combined odds above 1.
StrengthOfValidTicket ==
  /\ HasReturned("computeTicketStrength")
  /\ applied.args.qualifyingCount >= applied.args.minSelections
  /\ applied.args.combinedOdds > MICRO

C14_CrashContainment ==
  HasReturned("buildEffectiveRidePath") =>
    \A i \in DOMAIN applied.result :
      applied.result[i].timePct >= applied.args.crashPct
        => applied.result[i].baseBoostValue = 0

\* A path was returned that has a point above zero before the crash
\* fraction, a point exactly at it and points after it, for a profile whose
\* floor is above zero.
C14_Witness ==
  /\ HasReturned("buildEffectiveRidePath")
  /\ applied.args.config.minBoostPct > 0
  /\ \E i \in DOMAIN applied.result :
       /\ applied.result[i].timePct < applied.args.crashPct
       /\ applied.result[i].baseBoostValue > 0
  /\ \E i \in DOMAIN applied.result : applied.result[i].timePct = applied.args.crashPct
  /\ \E i \in DOMAIN applied.result : applied.result[i].timePct > applied.args.crashPct

\* C17: a degenerate interval fails closed.  When end <= start,
\* calculateElapsedPct returns 1 and hasRideEnded is true for every current
\* time; the functions have no path that throws, so every application
\* returns.
C17_DegenerateIntervalEnded ==
  (HasReturned("calculateElapsedPct") /\ applied.args.endTime <= applied.args.startTime)
    => /\ applied.result.elapsedPct = MICRO
       /\ applied.result.hasRideEnded

\* The functions have returned for an interval that ends before it starts,
\* read at a time before both.
C17_Witness ==
  /\ HasReturned("calculateElapsedPct")
  /\ applied.args.endTime < applied.args.startTime
  /\ applied.args.currentTime < applied.args.endTime

\* ------------------------------------------------------------------------
\* Properties of request authentication
\* ------------------------------------------------------------------------

\* C18: replay protection.  A signature that was accepted once is never
\* accepted again: a request is accepted only while its timestamp is inside
\* the skew window, so a second acceptance is a replay inside the window
\* that was not rejected, whatever was accepted in between.
C18_ReplayRejected == replayed = {}

\* ------------------------------------------------------------------------
\* Properties of the service
\* ------------------------------------------------------------------------

\* The answered requests of a kind.
AnsweredCalls(kind) == {i \in Slots : calls[i].kind = kind /\ calls[i].pc = 0}

\* The locks of a bet that existed when the request made its first read.
LocksSeenBy(call) == {l \in locks : l.betId = call.args.betId /\ l.id <= call.seen.locks}

\* C1: lock is idempotent per bet id.  A lockBoost call made when a lock
\* of its bet exists answers with success, the lock_id and the
\* locked_boost_pct of that lock, whatever the clock reads and whatever has
\* become of the reward; and every successful answer of lockBoost, the
\* first one included, carries the id and the stored boost of the lock of
\* its bet.
C1_LockIdempotent ==
  \A i \in AnsweredCalls("lock") :
    /\ \A l \in LocksSeenBy(calls[i]) :
         /\ calls[i].res.success
         /\ calls[i].res.lock_id = l.id
         /\ calls[i].res.locked_boost_pct = l.lockedBoostPct
    /\ calls[i].res.success =>
         \E l \in locks :
           /\ l.betId = calls[i].args.betId
           /\ calls[i].res.lock_id = l.id
           /\ calls[i].res.locked_boost_pct = l.lockedBoostPct

\* A lockBoost call found the lock of its bet and has answered, and the
\* ride of the reward is over.
C1_Witness ==
  \E i \in AnsweredCalls("lock") :
    /\ LocksSeenBy(calls[i]) # {}
    /\ calls[i].res.success
    /\ hasRideEnded(rewards[calls[i].args.rewardId].startTime,
                    rewards[calls[i].args.rewardId].endTime, ClockMs)

\* C2: at most one lock record per bet id, under every interleaving of the
\* steps of concurrent lock requests.
C2_OneLockPerBet ==
  \A l1 \in locks, l2 \in locks : l1.betId = l2.betId => l1 = l2

\* Two lock requests of one bet ran concurrently: the lock of the bet
\* exists and a request that had not seen it failed on the insert.
C2_Witness ==
  \E i \in AnsweredCalls("lock") :
    /\ calls[i].res = Thrown
    /\ LocksSeenBy(calls[i]) = {}
    /\ \E l \in locks : l.betId = calls[i].args.betId

\* C3: a reward is single-use: at most one lock record per reward.
C3_OneLockPerReward ==
  \A l1 \in locks, l2 \in locks : l1.rewardId = l2.rewardId => l1 = l2

\* The reward has a lock, and a lock request naming another bet id on the
\* same reward has been turned down.
C3_Witness ==
  \E i \in AnsweredCalls("lock") :
    /\ ~calls[i].res.success
    /\ \E l \in locks : l.rewardId = calls[i].args.rewardId /\ l.betId # calls[i].args.betId

\* The lock requests that evaluated the ride at or past its crash fraction,
\* or at or past 1, and have answered.
CrashedLockCalls ==
  {i \in AnsweredCalls("lock") :
     /\ calls[i].loc # <<>>
     /\ \/ calls[i].loc.elapsedPct >= calls[i].loc.crashPct
        \/ calls[i].loc.elapsedPct >= MICRO}

\* C4: no boost is kept after a crash.  A lockBoost call that evaluates
\* the ride at or past the crash fraction answers RIDE_CRASHED or
\* RIDE_ENDED; no lock record carries an elapsed fraction at or past the
\* crash fraction; a reward is USED only when it has a lock; a settlement
\* exists only for a bet with a lock; and the bet of such a call has no
\* lock, so no bonus can be paid for it.
C4_NoBoostAfterCrash ==
  /\ \A i \in CrashedLockCalls :
       /\ ~calls[i].res.success
       /\ calls[i].res.code \in {"RIDE_CRASHED", "RIDE_ENDED"}
       /\ \A l \in locks : l.betId # calls[i].args.betId
  /\ \A l \in locks :
       l.snapshot.elapsedPct < l.snapshot.crashPct /\ l.snapshot.elapsedPct < MICRO
  /\ \A r \in DOMAIN rewards :
       rewards[r].status = "USED" => \E l \in locks : l.rewardId = r
  /\ \A t \in settlements : \E l \in locks : l.betId = t.betId

\* The slots in which this step starts an optIn request.
OptInStarts == {i \in Slots : calls[i].pc = 0 /\ calls'[i] # calls[i] /\ calls'[i].kind = "optIn"}

\* The rejection of an opt-in by the status of the reward.
OptInRejection(status) ==
  CASE status = "ENTERED" -> "ALREADY_OPTED_IN"
    [] status = "USED" -> "REWARD_ALREADY_USED"
    [] status = "EXPIRED" -> "REWARD_EXPIRED"

\* C5: the checkpoints of a reward are written exactly once.  An optIn
\* request on a reward that has been opted in is rejected at once, with
\* ALREADY_OPTED_IN while the reward is ENTERED and with
\* REWARD_ALREADY_USED or REWARD_EXPIRED afterwards, and no step of any
\* operation changes a stored checkpoint sequence.
C5_CheckpointsWrittenOnce ==
  [][/\ \A i \in OptInStarts :
          LET rewardId == calls'[i].args.rewardId
          IN  (rewardId \in DOMAIN rewards /\ rewards[rewardId].status # "GRANTED") =>
                /\ calls'[i].pc = 0
                /\ calls'[i].res = Failure(OptInRejection(rewards[rewardId].status))
     /\ \A r \in DOMAIN rideDefs :
          CheckpointsExist(r) => rideDefs'[r] = rideDefs[r]
     /\ \A r \in DOMAIN rewards :
          rewards[r].status # "GRANTED" => CheckpointsExist(r)]_vars

\* An opt-in on a reward that holds checkpoints has been rejected by the
\* status of the reward.
C5_Witness ==
  \E i \in AnsweredCalls("optIn") :
    /\ calls[i].args.rewardId \in DOMAIN rewards
    /\ CheckpointsExist(calls[i].args.rewardId)
    /\ calls[i].res \in {Failure("ALREADY_OPTED_IN"), Failure("REWARD_ALREADY_USED"),
                          Failure("REWARD_EXPIRED")}

\* The settlements of a bet that existed when the request made its first
\* read.
SettlementsSeenBy(call) ==
  {t \in settlements : t.betId = call.args.betId /\ t.id <= call.seen.settlements}

\* C6: settlement is idempotent per bet id.  A settleBet call made when a
\* settlement of its bet exists answers with the settlement_id and the
\* bonus_amount of that record, whatever outcome and winnings the call
\* carries, and no bet has two settlement records.
C6_SettlementIdempotent ==
  /\ \A i \in AnsweredCalls("settle") :
       \A t \in SettlementsSeenBy(calls[i]) :
         /\ calls[i].res.success
         /\ calls[i].res.settlement_id = t.id
         /\ calls[i].res.bonus_amount = t.bonusAmount
  /\ \A t1 \in settlements, t2 \in settlements : t1.betId = t2.betId => t1 = t2

\* A settleBet call that carries another outcome or other winnings than
\* the settlement of its bet has been answered from that settlement.
C6_Witness ==
  \E i \in AnsweredCalls("settle") :
    \E t \in SettlementsSeenBy(calls[i]) :
      /\ calls[i].args.outcome # t.outcome
      /\ calls[i].args.winnings # t.winnings

\* C7: the bonus is paid on wins only.  A settlement record has a
\* non-zero bonus_amount only when its outcome is WIN and its winnings are
\* positive, and then the bonus is the winnings times the locked boost of
\* the bet's lock, rounded to 4 decimals; otherwise the bonus is 0.
C7_BonusOnWinsOnly ==
  \A t \in settlements :
    IF t.outcome = "WIN" /\ t.winnings > 0
      THEN \E l \in locks :
             l.betId = t.betId /\ t.bonusAmount = MulMicro(t.winnings, l.lockedBoostPct)
      ELSE t.bonusAmount = 0

\* A winning bet has been settled with a bonus.
C7_Witness ==
  \E t \in settlements : t.outcome = "WIN" /\ t.winnings > 0 /\ t.bonusAmount > 0

\* C8: strict caps.  The locked_boost_pct of every lock record lies
\* within [min_boost_pct, max_boost_pct] of the profile that the lock call
\* read.
C8_StrictCaps ==
  \A l \in locks :
    /\ l.snapshot.minBoostPct <= l.lockedBoostPct
    /\ l.lockedBoostPct <= l.snapshot.maxBoostPct

\* The answers that may show a ride before it is locked: every answer of
\* getQuote and every failure of lockBoost.
UnlockedAnswers ==
  {i \in Slots : /\ calls[i].pc = 0
                 /\ \/ calls[i].kind = "quote"
                    \/ calls[i].kind = "lock" /\ ~calls[i].res.success}

\* The answer carries points of a ride.
CarriesRidePath(res) == "ride_path" \in DOMAIN res /\ res.ride_path # <<>>

\* C19: the ride path is returned only after lock.  No answer to a quote
\* request or to a failed lock request contains the ride path of a reward
\* for which no lock record exists.
C19_PathOnlyAfterLock ==
  \A i \in UnlockedAnswers :
    CarriesRidePath(calls[i].res) =>
      \E l \in locks : l.rewardId = calls[i].res.ride_path.rewardId

\* What updateRideStart binds to a reward.
Binding(reward) ==
  [betId |-> reward.betId, ticket |-> reward.ticket,
   startTime |-> reward.startTime, endTime |-> reward.endTime]

\* What an opt-in request binds.
BindingOf(call) ==
  [betId |-> call.args.betId, ticket |-> call.args.ticket,
   startTime |-> call.loc.startTime, endTime |-> call.loc.endTime]

\* The request in slot i binds its bet to reward r in this step.
Binds(i, r) ==
  /\ IsAt(i, "optIn", 4)
  /\ calls[i].args.rewardId = r
  /\ rewards'[r] # rewards[r]

StatusMoves ==
  {<<"GRANTED", "ENTERED">>, <<"ENTERED", "USED">>, <<"ENTERED", "EXPIRED">>}

\* C21: the status of a reward only moves forward.  Under every
\* interleaving of opt-in, lock and expiry processing, a step leaves the
\* status of a reward as it is or moves it along GRANTED -> ENTERED -> USED
\* or ENTERED -> EXPIRED: a USED or EXPIRED reward never changes status
\* again and no reward returns to an earlier status.
C21_StatusForward ==
  [][\A r \in DOMAIN rewards :
       \/ rewards'[r].status = rewards[r].status
       \/ <<rewards[r].status, rewards'[r].status>> \in StatusMoves]_vars

\* The lock that a successful answer of lockBoost shows.
LockShownBy(res) == CHOOSE l \in locks : l.id = res.lock_id

\* C22: lockBoost discloses a lock only to the owner of its reward.  A
\* successful answer of lockBoost shows a lock only when the reward_id of
\* the request is the reward of the lock and the user_id of the request
\* owns that reward; a request that names an existing bet_id with another
\* user or another reward receives no lock data.
C22_LockDisclosedToOwner ==
  \A i \in AnsweredCalls("lock") :
    calls[i].res.success =>
      /\ LockShownBy(calls[i].res).rewardId = calls[i].args.rewardId
      /\ rewards[LockShownBy(calls[i].res).rewardId].userId = calls[i].args.userId

\* The ride of the reward that a lock request names is live for its bet
\* at this reading of the clock.
RideLiveFor(times) ==
  /\ ~RideCrashed(times.elapsedPct, times.crashPct)
  /\ ~hasRideEnded(times.startTime, times.endTime, ClockMs)

RideLive(call) ==
  /\ call.args.rewardId \in DOMAIN rewards
  /\ rewards[call.args.rewardId].userId = call.args.userId
  /\ rewards[call.args.rewardId].status \in {"ENTERED", "USED"}
  /\ BoundTo(rewards[call.args.rewardId], call.args.betId)
  /\ RideLiveFor(LockTimes(rewards[call.args.rewardId],
                           generateSeed(call.args.rewardId), ClockMs))

\* The request in slot j is a lock request for the same user, reward and
\* bet that ran while the request in slot i did: it is still running, or
\* it has answered with a lock made after the request in slot i started.
RanConcurrently(i, j) ==
  /\ j # i
  /\ calls[j].kind = "lock"
  /\ calls[j].args = calls[i].args
  /\ \/ calls[j].pc # 0
     \/ calls[j].res.success /\ calls[j].res.lock_id > calls[i].seen.locks

\* The request in slot i answers in this step.
AnswersNow(i, kind) ==
  calls[i].kind = kind /\ calls[i].pc # 0 /\ calls'[i].pc = 0

\* C23: concurrent locks of one bet both succeed.  When a lock request
\* answers while the ride is live and another lock request for the same
\* bet ran concurrently, the answer is a success, and it carries the
\* lock_id and the locked_boost_pct of the other request's answer.
C23_ConcurrentLocksSucceed ==
  [][\A i \in Slots : \A j \in Slots :
       (AnswersNow(i, "lock") /\ RanConcurrently(i, j) /\ RideLive(calls[i])) =>
         /\ calls'[i].res.success
         /\ calls[j].pc = 0 =>
              /\ calls'[i].res.lock_id = calls[j].res.lock_id
              /\ calls'[i].res.locked_boost_pct = calls[j].res.locked_boost_pct]_vars

\* The crash fraction that optIn passes to generateRide for a reward.
OptInCrashPct(rewardId) ==
  OptInRideConfig(
    deriveRideParams(generateSeed(rewardId),
                     deriveRideDurationSeconds(generateSeed(rewardId),
                                               RideMinDurationMs, RideMaxDurationMs),
                     RideMinCrashMs),
    profile, 0,
    deriveRideDurationSeconds(generateSeed(rewardId), RideMinDurationMs, RideMaxDurationMs)).crashPct

\* The quote and lock requests that have derived a crash fraction.
CrashDerivedCalls ==
  {i \in Slots : calls[i].kind \in {"quote", "lock"} /\ "crashPct" \in DOMAIN calls[i].loc}

ReportsBoost(res) == "current_boost_pct" \in DOMAIN res /\ res.current_boost_pct > 0

\* The request read an elapsed fraction that had reached the crash
\* fraction of the ride.
EvaluatedAfterCrash(call) ==
  "crashPct" \in DOMAIN call.loc /\ call.loc.elapsedPct >= call.loc.crashPct

\* C25: the crash is irrevocable at quote level.  A quote that was
\* evaluated when the elapsed fraction of the ride had reached its crash
\* fraction is ineligible and reports no positive current_boost_pct; the
\* elapsed fraction never decreases with the clock, so this covers every
\* quote evaluated at the crash or later.
C25_CrashIrrevocable ==
  /\ \A i \in AnsweredCalls("quote") :
       EvaluatedAfterCrash(calls[i]) =>
         ~calls[i].res.eligible /\ ~ReportsBoost(calls[i].res)
  /\ \A i \in Slots :
       (calls[i].kind = "quote" /\ "crashPct" \in DOMAIN calls[i].loc) =>
         calls[i].loc.elapsedPct <=
           calculateElapsedPct(calls[i].loc.startTime, calls[i].loc.endTime, ClockMs)

\* A quote was evaluated after the crash and before the end of the ride
\* and has been answered.
C25_Witness ==
  \E i \in AnsweredCalls("quote") :
    /\ EvaluatedAfterCrash(calls[i])
    /\ calls[i].loc.elapsedPct < MICRO
    /\ calls[i].res.reason_code = "RIDE_CRASHED"

\* timeFraction of checkpoint i of a ride of checkpointCount checkpoints.
CheckpointTimeOf(i, checkpointCount) ==
  initializeCheckpoints(checkpointCount, 100000, 500000, 0)[i].timeOffsetPct

\* C26: the pre-crash boundary is the index of the last checkpoint whose
\* timeFraction is strictly before crashFraction.  Every checkpoint up to
\* the boundary lies before the crash fraction and the checkpoint after
\* the boundary does not: no checkpoint at or after crashFraction is
\* treated as pre-crash.
C26_BoundaryBeforeCrash ==
  HasReturned("getPreCrashLastCheckpointIndex") =>
    /\ \A i \in 0..applied.result :
         CheckpointTimeOf(i, applied.args.checkpointCount)
           < EffectiveCrashPct(applied.args.crashPct)
    /\ CheckpointTimeOf(applied.result + 1, applied.args.checkpointCount)
         >= EffectiveCrashPct(applied.args.crashPct)

\* C29: seed namespacing.  The generators that the decisions of one seed
\* construct (duration, crash point, ride shape, start bias, peak delay)
\* start from pairwise different states, so no two of them return the
\* same sequence of numbers.
C29_DistinctStreams ==
  HasReturned("SeededRandom") =>
    \A d \in DOMAIN applied.result : \A e \in DOMAIN applied.result :
      d # e => applied.result[d] # applied.result[e]


====
